---- MODULE Spec2Model ----
(***************************************************************************)
(* A model of django-GDPR's model anonymizers                              *)
(* (gdpr/anonymizers/model_anonymizers.py): the traversal/update engine    *)
(* ModelAnonymizerBase.update_obj, its Delete variant and the helpers they *)
(* call, over a small store of customers and their e-mail rows.            *)
(*                                                                         *)
(* One action is one root call of anonymize_obj / deanonymize_obj.  The     *)
(* call runs to completion: the recursion into related objects is part of  *)
(* the same step.  What the call did, in order, is kept in `trace`.         *)
(***************************************************************************)
EXTENDS Integers, Sequences, FiniteSets, TLC

VARIABLES
    Meta,       \* per model type: the anonymizer's variant and its Meta options
    vals,       \* stored value of every (object, field)
    rows,       \* the objects that exist in the store
    anon,       \* number of active AnonymizedData records per (type, pk, field)
    audit,      \* per object: its history entries (each a map field -> value)
    baseKey,    \* _base_encryption_key of every anonymizer instance
    held,       \* the parsed Fields object the caller keeps and may pass again
    last,       \* the arguments of the latest root call
    prev,       \* the arguments and the result of the root call before it
    result,     \* how the latest root call ended: "ok" or the exception raised
    trace,      \* what the latest root call did, in order
    calls,      \* number of root calls made so far
    anonymizers,\* per model type: what its anonymizer class declares per relation name
    gen,        \* a chunked_queryset_iterator generator and the rows of its queryset
    classes,    \* the anonymizer classes defined so far and the dicts they refer to
    levels      \* for every element of trace, the depth of the update_obj that did it

vars == <<Meta, vals, rows, anon, audit, baseKey, held, last, prev, result, trace, calls,
          anonymizers, gen, classes, levels>>

(***************************************************************************)
(* Bounds.                                                                 *)
(***************************************************************************)
MaxCalls == 2
MaxDraws == 2

(***************************************************************************)
(* The schema: one customer with two e-mail rows (tests' migration).       *)
(***************************************************************************)
Types == {"Customer", "Email"}
Objs == {"c1", "e1", "e2"}

TypeOf(o) == IF o = "c1" THEN "Customer" ELSE "Email"

Pk(o) == IF o = "e2" THEN 2 ELSE 1

None == <<>>

DELETE_FIELD_NAME == "__SELF__"

\* settings.GDPR_KEY (or settings.SECRET_KEY): one process-wide secret.
GDPR_KEY == "G"

\* The field anonymizers each anonymizer class declares (its `fields` map).
AnonymizerFields(type) == IF type = "Customer" THEN {"first_name", "personal_id"} ELSE {"email"}

\* FieldAnonymizer.get_is_reversible: "personal_id" is hashed, the others are ciphers.
FieldIsReversible(type, name) == name # "personal_id"

ObjFields == {<<o, f>> \in Objs \X {"first_name", "personal_id", "email"} : f \in AnonymizerFields(TypeOf(o))}

\* Key of an AnonymizedData record: content type, object_id = str(pk), field.
RecKey(o, name) == <<TypeOf(o), Pk(o), name>>

RecKeys == {RecKey(of[1], of[2]) : of \in ObjFields}

\* Email.customer is a ForeignKey(related_name='emails', on_delete=CASCADE).
Emails(o) == IF o = "c1" THEN <<"e1", "e2">> ELSE <<>>

Raw(o, name) == <<"raw", o, name>>

(***************************************************************************)
(* Field anonymizer: a keyed cipher.  Decrypting with another key than the *)
(* one used to encrypt does not give the original back.                    *)
(***************************************************************************)
Anonymized(v, key) == <<"enc", key, v>>

Deanonymized(v, key) ==
    IF v[1] = "enc" /\ v[2] = key THEN v[3] ELSE <<"dec", key, v>>

get_value(v, key, anonymization) ==
    IF anonymization THEN Anonymized(v, key) ELSE Deanonymized(v, key)

(***************************************************************************)
(* Sequence helpers.                                                       *)
(***************************************************************************)
InSeq(x, s) == \E i \in 1..Len(s) : s[i] = x

Without(s, x) == SelectSeq(s, LAMBDA y : y # x)

Min(a, b) == IF a < b THEN a ELSE b

(***************************************************************************)
(* The state a call threads through its steps.                             *)
(*   exc     "none" or the exception that is propagating                   *)
(*   depth   number of update_obj invocations that are running             *)
(*   draws   number of random base keys drawn so far in this call          *)
(*   oracle  the values random.choices yields in this call, in order       *)
(***************************************************************************)
Event(op, o, name, key) == [op |-> op, obj |-> o, field |-> name, key |-> key]

Log(st, op, o, name, key) ==
    [st EXCEPT !.trace = Append(@, Event(op, o, name, key)),
               !.levels = Append(@, st.depth)]

Raise(st, exc, o) == [Log(st, "raise", o, exc, None) EXCEPT !.exc = exc]

Failed(st) == st.exc # "none"

(***************************************************************************)
(* Anonymizer instances.  A root call runs on the caller's instance of the *)
(* object's anonymizer; a related object is updated by the instance held   *)
(* by the nested Fields (related_fields.anonymizer).                       *)
(*                                                                         *)
(* Every operator below that takes `st` returns the state after it, or a   *)
(* record [st, ...] with what it computed.  Once st.exc is set, the        *)
(* exception propagates: the remaining steps leave st as it is.            *)
(***************************************************************************)
Insts == {"root", "nested", "nested2", "nested3"} \X Types

\* The instance held by a Fields nested in the Fields that `inst` works on:
\* every level of a Fields tree has anonymizer instances of its own.
nested_in(inst) ==
    CASE inst[1] = "root"   -> "nested"
      [] inst[1] = "nested" -> "nested2"
      [] OTHER              -> "nested3"

RECURSIVE update_related_fields(_, _, _, _, _, _)
RECURSIVE related_loop(_, _, _, _, _, _, _, _)
RECURSIVE anonymizer_update_obj(_, _, _, _, _, _)
RECURSIVE entry_loop(_, _, _, _, _, _, _)
RECURSIVE auditlog_loop(_, _, _, _, _, _)
RECURSIVE update_dict_loop(_, _, _, _, _, _, _)

\* ModelAnonymizerBase.is_reversible
is_reversible(type) == Meta[type].reversible_anonymization

\* A key lookup that hands out whatever the instance holds.
get_encryption_key_unchecked(st, inst, o) ==
    IF ~is_reversible(inst[2])
    THEN [st  |-> [st EXCEPT !.draws = @ + 1],
          key |-> <<"rnd", st.oracle[Min(st.draws + 1, MaxDraws)]>>]
    ELSE [st |-> st, key |-> st.baseKey[inst]]

\* ModelAnonymizerBase.get_encryption_key: [st, key]
get_encryption_key(st, inst, o) ==
    IF ~is_reversible(inst[2])
    THEN [st  |-> [st EXCEPT !.draws = @ + 1],
          key |-> <<"rnd", st.oracle[Min(st.draws + 1, MaxDraws)]>>]
    ELSE IF st.baseKey[inst] # None
    THEN [st |-> st, key |-> st.baseKey[inst]]
    ELSE [st |-> Raise(st, "NotImplementedError", o), key |-> None]

\* A hash input without the field name.
HashInput_nofield(pk, base, secret, name) == <<pk, base, secret, "">>

\* The hash input f'{obj.pk}::{key}::{GDPR_KEY}::{field_name}'; sha256 is taken
\* as collision-free, so the digest is identified with its input.
HashInput(pk, base, secret, name) == <<pk, base, secret, name>>

hashed(r, o, name) ==
    IF Failed(r.st) THEN r
    ELSE [st  |-> Log(r.st, "key", o, name, HashInput(Pk(o), r.key, GDPR_KEY, name)),
          key |-> HashInput(Pk(o), r.key, GDPR_KEY, name)]

\* ModelAnonymizerBase._get_encryption_key: [st, key]
derive_key(st, inst, o, name) == hashed(get_encryption_key(st, inst, o), o, name)

\* A check that finds no record, whatever is stored.
is_field_anonymized_never(st, o, name) == FALSE

\* ModelAnonymizerBase.is_field_anonymized
is_field_anonymized(st, o, name) ==
    RecKey(o, name) \in DOMAIN st.anon /\ st.anon[RecKey(o, name)] > 0

\* A bookkeeping step that creates a record in either direction.
update_field_as_anonymized_create(st, o, name, anonymization) ==
    [Log(st, "create", o, name, None) EXCEPT !.anon[RecKey(o, name)] = @ + 1]

\* ModelAnonymizerBase.update_field_as_anonymized
update_field_as_anonymized(st, o, name, anonymization) ==
    IF anonymization
    THEN [Log(st, "create", o, name, None) EXCEPT !.anon[RecKey(o, name)] = @ + 1]
    ELSE [Log(st, "unmark", o, name, None) EXCEPT !.anon[RecKey(o, name)] = 0]

\* An ordered dict as a sequence of <<name, value>> pairs.
DictSet(d, name, v) ==
    IF \E i \in 1..Len(d) : d[i][1] = name
    THEN [i \in 1..Len(d) |-> IF d[i][1] = name THEN <<name, v>> ELSE d[i]]
    ELSE Append(d, <<name, v>>)

\* A record loop that stops after the first field.
mark_loop_first(st, o, d, i, anonymization) ==
    IF i > Len(d) \/ i > 1 THEN st
    ELSE update_field_as_anonymized(st, o, d[i][1], anonymization)

RECURSIVE mark_loop(_, _, _, _, _)
mark_loop(st, o, d, i, anonymization) ==
    IF i > Len(d) THEN st
    ELSE mark_loop(update_field_as_anonymized(st, o, d[i][1], anonymization),
                   o, d, i + 1, anonymization)

RECURSIVE setattr_loop(_, _, _, _)
setattr_loop(v, o, d, i) ==
    IF i > Len(d) THEN v
    ELSE setattr_loop([v EXCEPT ![<<o, d[i][1]>>] = d[i][2]], o, d, i + 1)

\* obj.save() after the setattr loop, with audit logging disabled
save(st, o, updated_data) ==
    [Log(st, "save", o, "", None) EXCEPT
        !.vals = setattr_loop(@, o, updated_data, 1),
        !.rows = @ \cup {o}]

\* ModelAnonymizerBase._perform_update (perform_update): setattr, one save,
\* then one record update per field.
perform_update(st, o, updated_data, anonymization) ==
    IF Failed(st) THEN st
    ELSE mark_loop(save(st, o, updated_data), o, updated_data, 1, anonymization)

\* A deletion of the history in either direction.
delete_auditlog_always(st, o, anonymization) ==
    [Log(st, "audit_delete", o, "", None) EXCEPT !.audit[o] = <<>>]

\* ModelAnonymizerBase.delete_auditlog
delete_auditlog(st, o, anonymization) ==
    IF anonymization
    THEN [Log(st, "audit_delete", o, "", None) EXCEPT !.audit[o] = <<>>]
    ELSE st

\* anonymize_auditlog, lines 123-125: one field of one entry is rewritten
entry_step(r, inst, o, changes, names, j, anonymization) ==
    IF Failed(r.st) THEN [st |-> r.st, changes |-> changes]
    ELSE entry_loop(r.st, inst, o,
                    [changes EXCEPT ![names[j]] = get_value(@, r.key, anonymization)],
                    names, j + 1, anonymization)

\* anonymize_auditlog, the inner loop over field_names: [st, changes]
entry_loop(st, inst, o, changes, names, j, anonymization) ==
    IF j > Len(names) \/ Failed(st) THEN [st |-> st, changes |-> changes]
    ELSE IF names[j] \in DOMAIN changes
    THEN entry_step(derive_key(st, inst, o, names[j]), inst, o, changes, names, j,
                    anonymization)
    ELSE entry_loop(st, inst, o, changes, names, j + 1, anonymization)

\* anonymize_auditlog, line 126: entry.save()
entry_save(r, inst, o, names, i, anonymization) ==
    IF Failed(r.st) THEN r.st
    ELSE auditlog_loop(
             [Log(r.st, "audit_save", o, "", None) EXCEPT !.audit[o][i] = r.changes],
             inst, o, names, i + 1, anonymization)

\* anonymize_auditlog, the loop over the entries of the object
auditlog_loop(st, inst, o, names, i, anonymization) ==
    IF i > Len(st.audit[o]) \/ Failed(st) THEN st
    ELSE entry_save(entry_loop(st, inst, o, st.audit[o][i], names, 1, anonymization),
                    inst, o, names, i, anonymization)

\* A rewrite that leaves the history as it is.
anonymize_auditlog_skip(st, inst, o, field_names, anonymization) == st

\* ModelAnonymizerBase.anonymize_auditlog
anonymize_auditlog(st, inst, o, field_names, anonymization) ==
    auditlog_loop(st, inst, o, field_names, 1, anonymization)

(***************************************************************************)
(* update_obj: the local part.                                             *)
(***************************************************************************)
\* A guard that lets every call through.
guard_raises_never(type, anonymization) == FALSE

\* update_obj, the guard of lines 344-345
guard_raises(type, anonymization) == ~anonymization /\ ~is_reversible(type)

\* update_obj, lines 347-348
set_base_key(st, inst, base_encryption_key) ==
    IF base_encryption_key # None
    THEN [st EXCEPT !.baseKey[inst] = base_encryption_key]
    ELSE st

\* A selection that takes every requested field when anonymizing.
raw_local_fields_all(st, inst, o, local_fields, anonymization) ==
    IF anonymization
    THEN local_fields
    ELSE SelectSeq(local_fields, LAMBDA i : is_field_anonymized(st, o, i)
                                            /\ FieldIsReversible(inst[2], i))

\* A selection that takes every requested field when deanonymizing.
raw_local_fields_requested(st, inst, o, local_fields, anonymization) ==
    IF anonymization
    THEN SelectSeq(local_fields, LAMBDA i : ~is_field_anonymized(st, o, i))
    ELSE local_fields

\* A selection that ignores what the field anonymizers report.
raw_local_fields_marked(st, inst, o, local_fields, anonymization) ==
    IF anonymization
    THEN SelectSeq(local_fields, LAMBDA i : ~is_field_anonymized(st, o, i))
    ELSE SelectSeq(local_fields, LAMBDA i : is_field_anonymized(st, o, i))

\* update_obj, lines 352-356: the local fields this call transforms
raw_local_fields(st, inst, o, local_fields, anonymization) ==
    IF anonymization
    THEN SelectSeq(local_fields, LAMBDA i : ~is_field_anonymized(st, o, i))
    ELSE SelectSeq(local_fields, LAMBDA i : is_field_anonymized(st, o, i)
                                            /\ FieldIsReversible(inst[2], i))

\* update_obj, line 360: get_value_from_obj with the derived key
update_dict_step(r, inst, o, names, i, anonymization, d) ==
    IF Failed(r.st) THEN [st |-> r.st, dict |-> d]
    ELSE update_dict_loop(r.st, inst, o, names, i + 1, anonymization,
             DictSet(d, names[i],
                     get_value(r.st.vals[<<o, names[i]>>], r.key, anonymization)))

\* update_obj, lines 359-361: the dict comprehension; self[name] raises
\* KeyError for a name the anonymizer declares no field anonymizer for.
update_dict_loop(st, inst, o, names, i, anonymization, d) ==
    IF i > Len(names) \/ Failed(st) THEN [st |-> st, dict |-> d]
    ELSE IF names[i] \notin AnonymizerFields(inst[2])
    THEN [st |-> Raise(st, "KeyError", o), dict |-> d]
    ELSE update_dict_step(derive_key(st, inst, o, names[i]), inst, o, names, i,
                          anonymization, d)

\* update_obj, lines 362-365: the audit interaction
audit_interaction(st, inst, o, raw, anonymization) ==
    IF Meta[inst[2]].delete_auditlog THEN delete_auditlog(st, o, anonymization)
    ELSE IF Meta[inst[2]].anonymize_auditlog
    THEN anonymize_auditlog(st, inst, o, raw, anonymization)
    ELSE st

\* update_obj, lines 362-366, given the update dict
audit_and_perform(r, inst, o, raw, anonymization) ==
    IF Failed(r.st) THEN r.st
    ELSE perform_update(audit_interaction(r.st, inst, o, raw, anonymization),
                        o, r.dict, anonymization)

\* update_obj, lines 358-366
local_update(st, inst, o, raw, anonymization) ==
    IF raw = <<>> THEN st
    ELSE audit_and_perform(update_dict_loop(st, inst, o, raw, 1, anonymization, <<>>),
                           inst, o, raw, anonymization)

\* update_obj, line 368
then_related(st, inst, o, fields, anonymization) ==
    IF Failed(st) THEN [st |-> st, fields |-> fields]
    ELSE update_related_fields(st, inst, o, fields, anonymization, 1)

(***************************************************************************)
(* Parsed field sets.                                                      *)
(***************************************************************************)
\* A Fields object: its model, its local field names in order, and its
\* related entries in order.
F(model, local_fields, related_fields) ==
    [model |-> model, local_fields |-> local_fields, related_fields |-> related_fields]

\* One entry of Fields.related_fields
Rel(name, fields) == [name |-> name, fields |-> fields]

\* No Fields object.
NoFields == F("", <<>>, <<>>)

(***************************************************************************)
(* What a relation name resolves to.                                       *)
(***************************************************************************)
\* The names a field matrix uses for a relation.
RelNames == {"emails", "customer", "last_email", "other_emails", "nothing", "label",
             "ghost", "missing", "sibling", "itself"}

\* ModelAnonymizerMeta.__new__, lines 47-51: what the `anonymizers` dict of a
\* class holds per name: "relation" (a RelationAnonymizer), "model" (a nested
\* model anonymizer) or "none" (no entry).  Here a class that declares none.
NoAnonymizers == [t \in Types |-> [n \in RelNames |-> "none"]]

\* The names under which an anonymizer class declares a RelationAnonymizer.
RelationAnonymizers(type) == {n \in RelNames : anonymizers[type][n] = "relation"}

\* get_field_or_none(self.model, name): the cardinality of the schema field,
\* "none" when the model has no field of that name.
SchemaField(type, name) ==
    CASE type = "Customer" /\ name = "emails" -> "one_to_many"
      [] type = "Email" /\ name = "customer"  -> "many_to_one"
      [] OTHER -> "none"

\* The rows a relation of `o` reaches, queried when the loop starts.  The
\* property last_email is the customer's last e-mail row, other_emails a
\* queryset of all but the first; the property sibling of an e-mail row is
\* the other e-mail row of its customer, the property itself the row itself.
RelatedRows(st, o, name) ==
    CASE name = "emails"   -> SelectSeq(Emails(o), LAMBDA e : e \in st.rows)
      [] name = "customer" -> IF TypeOf(o) = "Email" /\ "c1" \in st.rows
                              THEN <<"c1">> ELSE <<>>
      [] name = "last_email" ->
            SelectSeq(SubSeq(Emails(o), Len(Emails(o)), Len(Emails(o))),
                      LAMBDA e : e \in st.rows)
      [] name = "other_emails" ->
            SelectSeq(SubSeq(Emails(o), 2, Len(Emails(o))), LAMBDA e : e \in st.rows)
      [] name = "sibling" ->
            SelectSeq(Emails("c1"), LAMBDA e : e \in st.rows /\ e # o /\ TypeOf(o) = "Email")
      [] name = "itself" -> <<o>>
      [] OTHER -> <<>>

\* RelationAnonymizer.get_related_objects(obj) of the relation declared
\* under `name`: the customer's first e-mail row.
get_related_objects(st, o, name) ==
    SelectSeq(SubSeq(Emails(o), 1, Min(1, Len(Emails(o)))), LAMBDA e : e \in st.rows)

\* getattr(obj, name, None) of a name that is no schema field: "absent" (the
\* class has no such attribute), "none", "model", "queryset" or "other" (a
\* value that is neither None, nor a Model, nor a QuerySet).
AttrKind(type, name) ==
    CASE type = "Customer" /\ name = "last_email"   -> "model"
      [] type = "Customer" /\ name = "other_emails" -> "queryset"
      [] type = "Customer" /\ name = "nothing"      -> "none"
      [] type = "Customer" /\ name = "label"        -> "other"
      [] type = "Email" /\ name = "sibling"         -> "model"
      [] type = "Email" /\ name = "itself"          -> "model"
      [] OTHER -> "absent"

\* field.related_model of a schema relation, anonymizer.model of a declared
\* anonymizer: every relation but an e-mail row's customer leads to e-mail rows
related_model(type, name) == IF name = "customer" THEN "Customer" ELSE "Email"

\* A get_related_model that accepts any name.
get_related_model_any(type, name) == related_model(type, name)

\* ModelAnonymizerBase.get_related_model: the related model's type, or the
\* exception raised.  A declared nested anonymizer stands for its model.
get_related_model(type, name) ==
    IF SchemaField(type, name) = "none"
    THEN IF anonymizers[type][name] \in {"model", "relation"}
         THEN related_model(type, name)
         ELSE "RuntimeError"
    ELSE related_model(type, name)

\* Fields(fields, obj.__class__): every related name of the matrix is
\* resolved to a model, at every level, when the matrix is parsed.
RECURSIVE resolvable(_, _)
resolvable(type, fields) ==
    \A i \in DOMAIN fields.related_fields :
        /\ get_related_model(type, fields.related_fields[i].name) \in Types
        /\ resolvable(get_related_model(type, fields.related_fields[i].name),
                      fields.related_fields[i].fields)


\* The local update of an object whose related fields have been processed.
local_after(r, inst, o, anonymization) ==
    [st |-> IF Failed(r.st) THEN r.st
            ELSE local_update(r.st, inst, o,
                     raw_local_fields(r.st, inst, o, r.fields.local_fields, anonymization),
                     anonymization),
     fields |-> r.fields]

\* An update that processes the related fields first and the object last.
update_parsed_related_first(st, inst, o, fields, anonymization) ==
    local_after(update_related_fields(st, inst, o, fields, anonymization, 1),
                inst, o, anonymization)

\* update_obj, lines 352-368, once the fields are parsed
update_parsed(st, inst, o, fields, anonymization) ==
    then_related(
        local_update(st, inst, o,
                     raw_local_fields(st, inst, o, fields.local_fields, anonymization),
                     anonymization),
        inst, o, fields, anonymization)

\* update_obj, lines 350-368, once the base key is set: the parse of line
\* 350 raises on a related name that resolves to no model, and then there
\* is no Fields object.
update_selected(st, inst, o, fields, anonymization) ==
    IF resolvable(inst[2], fields)
    THEN update_parsed(st, inst, o, fields, anonymization)
    ELSE [st |-> Raise(st, "RuntimeError", o), fields |-> NoFields]

\* ModelAnonymizerBase.update_obj: [st, fields]
update_obj(st, inst, o, fields, base_encryption_key, anonymization) ==
    IF guard_raises(inst[2], anonymization)
    THEN [st |-> Raise(st, "IrreversibleAnonymizerException", o), fields |-> fields]
    ELSE update_selected(set_base_key(st, inst, base_encryption_key),
                         inst, o, fields, anonymization)

(***************************************************************************)
(* DeleteModelAnonymizer.                                                  *)
(***************************************************************************)
\* obj.__class__.objects.filter(pk=obj.pk).delete(): the row and, by
\* on_delete=CASCADE, the e-mail rows that point to it.
delete_row(st, o) ==
    [Log(st, "delete", o, "", None) EXCEPT
        !.rows = @ \ ({o} \cup {Emails(o)[i] : i \in 1..Len(Emails(o))})]

\* A purge that ignores Meta.delete_auditlog.
delete_purge_always(st, inst, o, anonymization) == delete_auditlog(st, o, anonymization)

\* DeleteModelAnonymizer.update_obj, lines 415-416
delete_purge(st, inst, o, anonymization) ==
    IF Meta[inst[2]].delete_auditlog THEN delete_auditlog(st, o, anonymization) ELSE st

\* DeleteModelAnonymizer.update_obj, lines 413-416, after the related fields
delete_self(r, inst, o, anonymization) ==
    IF Failed(r.st) THEN r
    ELSE [st |-> delete_purge(delete_row(r.st, o), inst, o, anonymization),
          fields |-> r.fields]

\* DeleteModelAnonymizer.update_obj, lines 418-422: the Fields passed on to
\* the base update.  The strip of line 419 assigns to the local_fields
\* attribute of the Fields object the call was given.
strip_self(fields) ==
    IF InSeq(DELETE_FIELD_NAME, fields.local_fields)
    THEN [fields EXCEPT !.local_fields = Without(@, DELETE_FIELD_NAME)]
    ELSE fields

\* A Delete variant that deletes in either direction.
delete_update_obj_always(st, inst, o, fields, base_encryption_key, anonymization) ==
    IF InSeq(DELETE_FIELD_NAME, fields.local_fields)
    THEN delete_self(update_related_fields(st, inst, o, fields, anonymization, 1),
                     inst, o, anonymization)
    ELSE update_obj(st, inst, o, fields, base_encryption_key, anonymization)

\* DeleteModelAnonymizer.update_obj, lines 410-422, once the fields are parsed
delete_parsed(st, inst, o, fields, base_encryption_key, anonymization) ==
    IF InSeq(DELETE_FIELD_NAME, fields.local_fields) /\ anonymization
    THEN delete_self(update_related_fields(st, inst, o, fields, anonymization, 1),
                     inst, o, anonymization)
    ELSE update_obj(st, inst, o, strip_self(fields), base_encryption_key, anonymization)

\* DeleteModelAnonymizer.update_obj: [st, fields]; the parse is line 408
delete_update_obj(st, inst, o, fields, base_encryption_key, anonymization) ==
    IF resolvable(inst[2], fields)
    THEN delete_parsed(st, inst, o, fields, base_encryption_key, anonymization)
    ELSE [st |-> Raise(st, "RuntimeError", o), fields |-> NoFields]

\* The call of update_obj: one more invocation is running.
entered(st, o, base_encryption_key, anonymization) ==
    Log([st EXCEPT !.depth = @ + 1], "enter", o,
        IF anonymization THEN "anonymize" ELSE "deanonymize", base_encryption_key)

\* The return of update_obj, normal or by an exception.
returned(r) == [st |-> [r.st EXCEPT !.depth = @ - 1], fields |-> r.fields]

\* Method dispatch on the anonymizer's class: [st, fields]
anonymizer_update_obj(st, inst, o, fields, base_encryption_key, anonymization) ==
    IF Meta[inst[2]].variant = "Delete"
    THEN returned(delete_update_obj(
             entered(st, o, base_encryption_key, anonymization),
             inst, o, fields, base_encryption_key, anonymization))
    ELSE returned(update_obj(
             entered(st, o, base_encryption_key, anonymization),
             inst, o, fields, base_encryption_key, anonymization))

(***************************************************************************)
(* Related fields.                                                         *)
(***************************************************************************)
\* A resolution that looks at the schema first.
resolution_path_schema_first(type, name) ==
    IF SchemaField(type, name) # "none" THEN "field"
    ELSE IF name \in RelationAnonymizers(type) THEN "anonymizer"
    ELSE "property"

\* update_related_fields, lines 326-337: which of the three paths is taken
resolution_path(type, name) ==
    IF name \in RelationAnonymizers(type) THEN "anonymizer"
    ELSE IF SchemaField(type, name) # "none" THEN "field"
    ELSE "property"

\* update_related_model_fields, lines 301-318: [objs, warn]
model_field_targets(st, type, o, name) ==
    IF SchemaField(type, name) \in {"one_to_many", "many_to_many", "many_to_one", "one_to_one"}
    THEN [objs |-> RelatedRows(st, o, name), warn |-> FALSE]
    ELSE [objs |-> <<>>, warn |-> TRUE]

\* update_related_model_property_fields, lines 261-280: [objs, warn]
property_targets(st, type, o, name) ==
    IF AttrKind(type, name) = "none" THEN [objs |-> <<>>, warn |-> FALSE]
    ELSE IF AttrKind(type, name) \in {"model", "queryset"}
    THEN [objs |-> RelatedRows(st, o, name), warn |-> FALSE]
    ELSE [objs |-> <<>>, warn |-> TRUE]

\* update_related_anonymizer_fields, line 236: anonymizer.get_related_objects
anonymizer_targets(st, type, o, name) ==
    [objs |-> get_related_objects(st, o, name), warn |-> FALSE]

related_targets(st, type, o, name) ==
    CASE resolution_path(type, name) = "anonymizer" -> anonymizer_targets(st, type, o, name)
      [] resolution_path(type, name) = "field"      -> model_field_targets(st, type, o, name)
      [] OTHER                                      -> property_targets(st, type, o, name)

\* An unreachable attribute that raises.
warned_raises(st, o, name, targets) ==
    IF targets.warn THEN Raise(st, "UnreachablePropertyError", o) ELSE st

\* warnings.warn of lines 279 and 317
warned(st, o, name, targets) ==
    IF targets.warn THEN Log(st, "warn", o, name, None) ELSE st

\* A loop that ends after its first related object.
related_next_stop(r, inst, o, name, objs, i, anonymization) ==
    [st |-> r.st, fields |-> r.fields]

\* The call of lines 238, 266, 273, 304, 311 on one related object
related_next(r, inst, o, name, objs, i, anonymization) ==
    related_loop(r.st, inst, o, name, r.fields, objs, i + 1, anonymization)

related_child(k, inst, o, name, related_fields, objs, i, anonymization) ==
    IF Failed(k.st) THEN [st |-> k.st, fields |-> related_fields]
    ELSE related_next(
             anonymizer_update_obj(k.st, <<nested_in(inst), related_fields.model>>, objs[i],
                                   related_fields, k.key, anonymization),
             inst, o, name, objs, i, anonymization)

\* The loop over the related objects of one entry (lines 237-242, 272-277,
\* 303-308): the child's base key is derived from the parent's key and the
\* relation's name, once per related object.  [st, fields]
related_loop(st, inst, o, name, related_fields, objs, i, anonymization) ==
    IF i > Len(objs) \/ Failed(st) THEN [st |-> st, fields |-> related_fields]
    ELSE related_child(derive_key(st, inst, o, name), inst, o, name, related_fields,
                       objs, i, anonymization)

related_entry_done(r, inst, o, parsed_fields, anonymization, i) ==
    update_related_fields(r.st, inst, o,
        [parsed_fields EXCEPT !.related_fields[i].fields = r.fields],
        anonymization, i + 1)

\* An engine that follows a relation once more than the Fields say: below an
\* entry that asks for one local field and no relation, the same relation
\* is followed again.
entry_fields_once_more(parsed_fields, e) ==
    IF e.fields.related_fields = <<>> /\ Len(e.fields.local_fields) = 1
    THEN [e.fields EXCEPT !.related_fields = <<Rel(e.name, F(e.fields.model, <<>>, <<>>))>>]
    ELSE e.fields

\* update_related_fields, line 322: the Fields a related object is updated
\* with is the value stored under the entry's name, whatever the object is
entry_fields(parsed_fields, e) == e.fields

\* update_related_fields, lines 323-337: one entry of related_fields
related_entry(st, inst, o, parsed_fields, anonymization, i, e, targets) ==
    related_entry_done(
        related_loop(
            warned(Log(st, resolution_path(inst[2], e.name), o, e.name, None),
                   o, e.name, targets),
            inst, o, e.name, entry_fields(parsed_fields, e), targets.objs, 1, anonymization),
        inst, o, parsed_fields, anonymization, i)

\* ModelAnonymizerBase.update_related_fields, from entry i on: [st, fields]
update_related_fields(st, inst, o, parsed_fields, anonymization, i) ==
    IF i > Len(parsed_fields.related_fields) \/ Failed(st)
    THEN [st |-> st, fields |-> parsed_fields]
    ELSE related_entry(st, inst, o, parsed_fields, anonymization, i,
             parsed_fields.related_fields[i],
             related_targets(st, inst[2], o, parsed_fields.related_fields[i].name))

(***************************************************************************)
(* The inputs of a root call.                                              *)
(***************************************************************************)
BaseKeys == {<<"K1">>}

RandVals == {"r1", "r2"}

IsDelete(type) == Meta[type].variant = "Delete"

\* The parsed field matrices a caller passes for an e-mail row; "__SELF__" is
\* passed only to a Delete variant.
EmailMatrices ==
    {F("Email", <<"email">>, <<>>)}
    \cup (IF IsDelete("Email") THEN {F("Email", <<DELETE_FIELD_NAME>>, <<>>)} ELSE {})

\* The parsed field matrices a caller passes for a customer.
CustomerMatrices ==
    {F("Customer", <<"first_name">>, <<>>),
     F("Customer", <<"first_name", "personal_id">>, <<>>),
     F("Customer", <<>>, <<Rel("emails", F("Email", <<"email">>, <<>>))>>),
     F("Customer", <<"first_name">>, <<Rel("emails", F("Email", <<"email">>, <<>>))>>)}
    \cup (IF IsDelete("Customer")
          THEN {F("Customer", <<DELETE_FIELD_NAME>>, <<>>),
                F("Customer", <<DELETE_FIELD_NAME, "first_name">>,
                  <<Rel("emails", F("Email", <<"email">>, <<>>))>>)}
          ELSE {})
    \cup (IF IsDelete("Email")
          THEN {F("Customer", <<"first_name">>,
                  <<Rel("emails", F("Email", <<DELETE_FIELD_NAME, "email">>, <<>>))>>)}
          ELSE {})

Matrices(type) == IF type = "Email" THEN EmailMatrices ELSE CustomerMatrices

Opt(variant, reversible, del, anonymize) ==
    [variant |-> variant, reversible_anonymization |-> reversible,
     delete_auditlog |-> del, anonymize_auditlog |-> anonymize]

\* The Meta of the customer's anonymizer: a reversible ModelAnonymizer that
\* rewrites the history, one with both audit options set, a non-reversible
\* one, and two Delete variants.
CustomerOptions ==
    {Opt("Model", TRUE, FALSE, TRUE), Opt("Model", TRUE, TRUE, TRUE),
     Opt("Model", FALSE, FALSE, TRUE),
     Opt("Delete", TRUE, TRUE, FALSE), Opt("Delete", FALSE, FALSE, FALSE)}

\* The Meta of the e-mail rows' anonymizer.
EmailOptions ==
    {Opt("Model", TRUE, FALSE, TRUE), Opt("Delete", FALSE, TRUE, FALSE)}

Configs ==
    {m \in [Types -> CustomerOptions \cup EmailOptions] :
        m["Customer"] \in CustomerOptions /\ m["Email"] \in EmailOptions}

\* The history auditlog holds when the calls start: per object a sequence of
\* entries, each a function from the changed fields to the recorded value.
InitAudit ==
    [o \in Objs |->
        CASE o = "c1" -> << ("first_name" :> Raw("c1", "first_name")) @@ ("personal_id" :> Raw("c1", "personal_id")) >>
          [] o = "e1" -> << ("email" :> <<"raw", "e1", "old">>),
                            ("email" :> Raw("e1", "email")) >>
          [] OTHER    -> << >>]

NoCall == [obj |-> "", fields |-> NoFields, key |-> None,
           anonymization |-> TRUE, reuse |-> FALSE, fresh |-> FALSE]

\* No generator has been created.
NoGen == [pc |-> "none"]

\* No anonymizer class has been defined in the run: no class records, no
\* dict objects, no Meta objects, nothing registered.
NoClasses == [defs |-> <<>>, dicts |-> <<>>, metas |-> <<>>, register |-> <<>>]

\* The store before any call.
InitStore ==
    /\ vals = [of \in ObjFields |-> Raw(of[1], of[2])]
    /\ rows = Objs
    /\ anon = [k \in RecKeys |-> 0]
    /\ audit = InitAudit
    /\ baseKey = [i \in Insts |-> None]
    /\ held = NoFields
    /\ last = NoCall
    /\ prev = [call |-> NoCall, result |-> "ok"]
    /\ result = "ok"
    /\ trace = <<>>
    /\ levels = <<>>
    /\ calls = 0

Init ==
    /\ Meta \in Configs
    /\ anonymizers = NoAnonymizers
    /\ gen = NoGen
    /\ classes = NoClasses
    /\ InitStore

\* The state a root call starts from; `fresh`: the caller builds a new
\* anonymizer for the call (ModelAnonymizerBase.__init__, no key given).
Start(o, oracle, fresh) ==
    [vals |-> vals, rows |-> rows, anon |-> anon, audit |-> audit,
     baseKey |-> IF fresh THEN [baseKey EXCEPT ![<<"root", TypeOf(o)>>] = None]
                 ELSE baseKey,
     trace |-> <<>>, levels |-> <<>>, depth |-> 0, exc |-> "none", draws |-> 0,
     oracle |-> oracle]

\* The root call itself: [st, fields]
Run(o, fields, key, anonymization, oracle, fresh) ==
    anonymizer_update_obj(Start(o, oracle, fresh), <<"root", TypeOf(o)>>, o,
                          fields, key, anonymization)

\* A root call inside a transaction: a call that raises leaves the store as
\* it was.
Commit_atomic(o, fields, key, anonymization, reuse, fresh, r) ==
    /\ vals' = IF Failed(r.st) THEN vals ELSE r.st.vals
    /\ rows' = IF Failed(r.st) THEN rows ELSE r.st.rows
    /\ anon' = IF Failed(r.st) THEN anon ELSE r.st.anon
    /\ audit' = IF Failed(r.st) THEN audit ELSE r.st.audit
    /\ baseKey' = [i \in Insts |-> IF i[1] = "root" THEN r.st.baseKey[i] ELSE None]
    /\ held' = IF r.fields = NoFields THEN held ELSE r.fields
    /\ last' = [obj |-> o, fields |-> fields, key |-> key,
                anonymization |-> anonymization, reuse |-> reuse, fresh |-> fresh]
    /\ prev' = [call |-> last, result |-> result]
    /\ result' = IF Failed(r.st) THEN r.st.exc ELSE "ok"
    /\ trace' = r.st.trace
    /\ levels' = r.st.levels
    /\ calls' = calls + 1
    /\ UNCHANGED <<Meta, anonymizers, gen, classes>>

\* What a root call leaves behind.  The instances held by nested Fields are
\* given a key on every entry (line 347), so what they keep is never read.
Commit(o, fields, key, anonymization, reuse, fresh, r) ==
    /\ vals' = r.st.vals
    /\ rows' = r.st.rows
    /\ anon' = r.st.anon
    /\ audit' = r.st.audit
    /\ baseKey' = [i \in Insts |-> IF i[1] = "root" THEN r.st.baseKey[i] ELSE None]
    /\ held' = IF r.fields = NoFields THEN held ELSE r.fields
    /\ last' = [obj |-> o, fields |-> fields, key |-> key,
                anonymization |-> anonymization, reuse |-> reuse, fresh |-> fresh]
    /\ prev' = [call |-> last, result |-> result]
    /\ result' = IF Failed(r.st) THEN r.st.exc ELSE "ok"
    /\ trace' = r.st.trace
    /\ levels' = r.st.levels
    /\ calls' = calls + 1
    /\ UNCHANGED <<Meta, anonymizers, gen, classes>>

Padded(oracle) ==
    [i \in 1..MaxDraws |-> IF i \in DOMAIN oracle THEN oracle[i] ELSE "r1"]

\* The number of random draws of a call does not depend on what is drawn:
\* r0 is the call with every draw yielding "r1"; when it drew, the call is
\* made again with each drawn value being either of RandVals.
Drawn(o, fields, key, anonymization, reuse, fresh, r0) ==
    IF r0.st.draws = 0
    THEN Commit(o, fields, key, anonymization, reuse, fresh, r0)
    ELSE /\ r0.st.draws <= MaxDraws
         /\ \E oracle \in [1..r0.st.draws -> RandVals] :
               Commit(o, fields, key, anonymization, reuse, fresh,
                      Run(o, fields, key, anonymization, Padded(oracle), fresh))

Execute(o, fields, key, anonymization, reuse, fresh) ==
    Drawn(o, fields, key, anonymization, reuse, fresh,
          Run(o, fields, key, anonymization, Padded(<<>>), fresh))

\* A new anonymizer differs from the one used before only when that one
\* holds a key and the call supplies none.
FreshMatters(o, key, fresh) ==
    fresh => key = None /\ baseKey[<<"root", TypeOf(o)>>] # None

\* anonymize_obj / deanonymize_obj on a stored object with a Fields the
\* caller has just parsed from a field matrix.
Call(o, fields, key, anonymization, fresh) ==
    /\ calls < MaxCalls
    /\ o \in rows
    /\ FreshMatters(o, key, fresh)
    /\ Execute(o, fields, key, anonymization, FALSE, fresh)

\* The same, passing again the Fields object of the previous call; it differs
\* from passing an equal new Fields only when that call changed the object.
CallHeld(o, key, anonymization, fresh) ==
    /\ calls < MaxCalls
    /\ o \in rows
    /\ held.model = TypeOf(o)
    /\ held # last.fields
    /\ FreshMatters(o, key, fresh)
    /\ Execute(o, held, key, anonymization, TRUE, fresh)

RootObjs == {"c1", "e1"}

Next ==
    \E o \in RootObjs, key \in BaseKeys \cup {None}, anonymization \in BOOLEAN,
       fresh \in BOOLEAN :
          \/ \E fields \in Matrices(TypeOf(o)) : Call(o, fields, key, anonymization, fresh)
          \/ CallHeld(o, key, anonymization, fresh)

Spec == Init /\ [][Next]_vars

(***************************************************************************)
(* chunked_queryset_iterator (gdpr/utils.py).  The queryset is the         *)
(* sequence of the primary keys of the rows it matches, in the order the   *)
(* database returns them; a deleted row leaves it.                         *)
(***************************************************************************)
MaxPk == 2
MaxChunk == 2
MaxNexts == 4

Pks == 0..MaxPk

\* The querysets a generator is created for: any rows, in any order.
Querysets ==
    {q \in UNION {[1..n -> Pks] : n \in 0..Cardinality(Pks)} :
        \A i, j \in DOMAIN q : i # j => q[i] # q[j]}

\* The least primary key of a non-empty queryset.
first_pk(q) == CHOOSE x \in {q[i] : i \in DOMAIN q} : \A j \in DOMAIN q : x <= q[j]

\* queryset.order_by("pk"), line 98
RECURSIVE order_by(_)
order_by(q) ==
    IF q = <<>> THEN <<>>
    ELSE <<first_pk(q)>> \o order_by(Without(q, first_pk(q)))

\* The generators a caller creates, before the first next().  last_pk is
\* None or <<pk>>; `yielded` are the batches handed out so far, each the
\* sequence of its rows; `original` is the queryset at creation; `nexts`
\* counts the resumptions; `kept` records that a next() was made while rows
\* of the batch yielded before it were still there, `changed` that rows
\* were deleted during the iteration.
Generators ==
    {[pc |-> "created", queryset |-> q, original |-> q, chunk_size |-> n,
      delete_qs |-> d, last_pk |-> None, yielded |-> <<>>, nexts |-> 0,
      kept |-> FALSE, changed |-> FALSE] :
        q \in Querysets, n \in 1..MaxChunk, d \in BOOLEAN}

\* queryset[:chunk_size]
slice(q, chunk_size) == SubSeq(q, 1, Min(chunk_size, Len(q)))

\* `if last_pk:` of line 102 as Python evaluates it: None and 0 are false
truthy(last_pk) == last_pk # None /\ last_pk[1] # 0

\* lines 101-103: queryset.filter(), then filter(pk__gt=last_pk) if last_pk
filter_after(q, last_pk) ==
    IF truthy(last_pk) THEN SelectSeq(q, LAMBDA pk : pk > last_pk[1]) ELSE q

\* line 104: the rows of the batch
batch_queryset(g) ==
    slice(filter_after(order_by(g.queryset), g.last_pk), g.chunk_size)

\* yield
yield(g, batch) == [g EXCEPT !.pc = "yielded", !.yielded = Append(@, batch)]

\* lines 105-106: batch_queryset[batch_queryset.count() - 1].pk, then yield.
\* On an empty batch the index is -1, which a QuerySet refuses.
yield_batch(g, batch) ==
    IF batch = <<>> THEN [g EXCEPT !.pc = "raised"]
    ELSE [yield(g, batch) EXCEPT !.last_pk = <<batch[Len(batch)]>>]

\* lines 100-106: one pass of the loop of the ordered mode
next_ordered(g) ==
    IF g.queryset = <<>> THEN [g EXCEPT !.pc = "stopped"]
    ELSE yield_batch(g, batch_queryset(g))

\* A delete mode that skips the first row of the queryset.
delete_chunk_tail(q, chunk_size) == SubSeq(q, 2, Min(chunk_size + 1, Len(q)))

\* line 96: queryset[:chunk_size] of the queryset as it stands
delete_chunk(q, chunk_size) == slice(q, chunk_size)

\* lines 95-96: one pass of the loop of the delete mode
next_delete(g) ==
    IF g.queryset = <<>> THEN [g EXCEPT !.pc = "stopped"]
    ELSE yield(g, delete_chunk(g.queryset, g.chunk_size))

\* The batch yielded last still has a row in the queryset.
last_batch_left(g) ==
    /\ g.yielded # <<>>
    /\ \E i \in DOMAIN g.yielded[Len(g.yielded)], j \in DOMAIN g.queryset :
          g.yielded[Len(g.yielded)][i] = g.queryset[j]

\* What the iterator never touches.
storeVars == <<Meta, vals, rows, anon, audit, baseKey, held, last, prev, result, trace,
               calls, anonymizers, classes, levels>>

\* next(generator): the generator runs up to its next yield, to its end or
\* to an exception.
next_batch ==
    /\ gen.pc \in {"created", "yielded"}
    /\ gen.nexts < MaxNexts
    /\ gen' = [(IF gen.delete_qs THEN next_delete(gen) ELSE next_ordered(gen))
                  EXCEPT !.nexts = @ + 1, !.kept = @ \/ last_batch_left(gen)]
    /\ UNCHANGED storeVars

\* The consumer deletes the rows of the batch it was handed (anonymize_qs of
\* the Delete variant, qs.delete()).
anonymize_qs ==
    /\ gen.pc = "yielded"
    /\ last_batch_left(gen)
    /\ gen' = [gen EXCEPT
                 !.queryset = SelectSeq(@, LAMBDA pk :
                                  \A i \in DOMAIN gen.yielded[Len(gen.yielded)] :
                                      gen.yielded[Len(gen.yielded)][i] # pk),
                 !.changed = TRUE]
    /\ UNCHANGED storeVars

InitIter ==
    /\ Meta = [t \in Types |-> Opt("Delete", FALSE, FALSE, FALSE)]
    /\ anonymizers = NoAnonymizers
    /\ gen \in Generators
    /\ classes = NoClasses
    /\ InitStore

NextIter == next_batch \/ anonymize_qs

SpecIter == InitIter /\ [][NextIter]_vars

(***************************************************************************)
(* Calls whose field matrix names relations of every kind: a schema        *)
(* relation, properties, and names the anonymizer class declares or not.   *)
(***************************************************************************)
\* What the customer's anonymizer class declares: a nested model anonymizer
\* under the name of each property and under "ghost", a name the model has
\* no attribute for; under "emails" either nothing or a RelationAnonymizer.
\* Nothing is declared under "missing".
Declared(emails) ==
    [t \in Types |-> [n \in RelNames |->
        IF t # "Customer" THEN "none"
        ELSE IF n = "emails" THEN emails
        ELSE IF n \in {"last_email", "other_emails", "nothing", "label", "ghost"}
        THEN "model"
        ELSE "none"]]

\* A field matrix of the customer with one or two related entries, each
\* asking for the e-mail address of the related rows.
Related1(a) == F("Customer", <<>>, <<Rel(a, F("Email", <<"email">>, <<>>))>>)

Related2(a, b) ==
    F("Customer", <<>>, <<Rel(a, F("Email", <<"email">>, <<>>)),
                          Rel(b, F("Email", <<"email">>, <<>>))>>)

RelMatrices ==
    {Related1("emails"), Related1("last_email"), Related1("other_emails"),
     Related2("label", "emails"), Related2("ghost", "last_email"),
     Related2("nothing", "emails"), Related2("missing", "emails"),
     Related2("emails", "missing")}

InitRel ==
    /\ Meta \in {m \in Configs :
                    /\ m["Customer"] \in {Opt("Model", TRUE, FALSE, TRUE),
                                          Opt("Delete", TRUE, TRUE, FALSE)}
                    /\ m["Email"] = Opt("Model", TRUE, FALSE, TRUE)}
    /\ anonymizers \in {Declared("none"), Declared("relation")}
    /\ gen = NoGen
    /\ classes = NoClasses
    /\ InitStore

NextRel ==
    \E fields \in RelMatrices, key \in BaseKeys, anonymization \in BOOLEAN :
        Call("c1", fields, key, anonymization, FALSE)

SpecRel == InitRel /\ [][NextRel]_vars

(***************************************************************************)
(* ModelAnonymizerMeta.__new__: the class statements of a program, one     *)
(* after another.  Class 0 is ModelAnonymizer, which has no Meta and       *)
(* therefore no `fields` or `anonymizers` attribute of its own.  A dict is  *)
(* an object: classes.dicts[id] maps every name to the class whose         *)
(* anonymizer is stored under it, 0 when the name is not a key; a class    *)
(* record holds the ids its `fields` and `anonymizers` attributes refer to *)
(* (0: the class has no such attribute of its own).                        *)
(***************************************************************************)
MaxClasses == 3

\* The names a class body binds to anonymizers: field anonymizers, and a
\* relation anonymizer under "emails".
AttrNames == {"first_name", "email", "emails"}

IsFieldAnonymizer(name) == name # "emails"

\* The class bodies: the set of names bound to a BaseAnonymizer.
ClassBodies == {{}, {"first_name"}, {"email"}, {"first_name", "emails"}}

\* The Meta of a class body: none of its own (inherited), an abstract one,
\* or one with a model.
MetaOptions == {"none", "abstract", "model"}

\* getattr(new_obj, attr) along the bases: the id the nearest class that has
\* the attribute refers to, 0 when no class has it
RECURSIVE inherited(_, _, _)
inherited(defs, c, attr) ==
    IF c = 0 THEN 0
    ELSE IF defs[c][attr] # 0 THEN defs[c][attr]
    ELSE inherited(defs, defs[c].base, attr)

\* The {} of getattr(new_obj, attr, {}): a new empty dict
EmptyDict == [n \in AttrNames |-> 0]

\* lines 44-45: getattr(new_obj, attr, {}): [cl, id]
getattr_dict(cl, base, attr) ==
    IF inherited(cl.defs, base, attr) # 0
    THEN [cl |-> cl, id |-> inherited(cl.defs, base, attr)]
    ELSE [cl |-> [cl EXCEPT !.dicts = Append(@, EmptyDict)], id |-> Len(cl.dicts) + 1]

\* lines 47-51: the loop over attrs.items()
collect(d, attrs, c, fields_only) ==
    [n \in AttrNames |->
        IF n \in attrs /\ (IsFieldAnonymizer(n) \/ ~fields_only) THEN c ELSE d[n]]

\* line 36: the class object, with its own Meta if the body has one
new_class(cl, base, attrs, meta) ==
    [cl EXCEPT
        !.defs = Append(@, [base |-> base, attrs |-> attrs, fields |-> 0, anonymizers |-> 0,
                            Meta |-> IF meta = "none" THEN 0 ELSE Len(cl.metas) + 1]),
        !.metas = IF meta = "none" THEN @
                  ELSE Append(@, [abstract |-> meta = "abstract", defaults |-> FALSE])]

\* lines 56-60: a class that is not abstract is registered and its Meta is
\* given the defaults of the three options
register(cl, c) ==
    IF cl.metas[inherited(cl.defs, c, "Meta")].abstract THEN cl
    ELSE [cl EXCEPT !.register = Append(@, c),
                    !.metas[inherited(cl.defs, c, "Meta")].defaults = TRUE]

\* lines 47-60, given the two dicts: fill them and bind them to the class
bind(cl, c, attrs, f, a) ==
    register([cl EXCEPT !.dicts[f] = collect(@, attrs, c, TRUE),
                        !.dicts[a] = collect(@, attrs, c, FALSE),
                        !.defs[c].fields = f,
                        !.defs[c].anonymizers = a],
             c)

\* line 45, the second getattr
with_anonymizers(r, c, base, attrs, f) == bind(r.cl, c, attrs, f, r.id)

with_fields(r, c, base, attrs) ==
    with_anonymizers(getattr_dict(r.cl, base, "anonymizers"), c, base, attrs, r.id)

\* lines 40-62, on the new class object c
initialize(cl, c, base, attrs) ==
    IF inherited(cl.defs, c, "Meta") = 0 THEN cl
    ELSE with_fields(getattr_dict(cl, base, "fields"), c, base, attrs)

\* ModelAnonymizerMeta.__new__
new(cl, base, attrs, meta) ==
    initialize(new_class(cl, base, attrs, meta), Len(cl.defs) + 1, base, attrs)

\* A class statement: class C(base) with the given body.  A class directly
\* under ModelAnonymizer defines its Meta.
ClassStatement(base, attrs, meta) ==
    /\ Len(classes.defs) < MaxClasses
    /\ base = 0 => meta # "none"
    /\ classes' = new(classes, base, attrs, meta)
    /\ UNCHANGED <<Meta, vals, rows, anon, audit, baseKey, held, last, prev, result,
                   trace, calls, anonymizers, gen, levels>>

InitMeta ==
    /\ Meta = [t \in Types |-> Opt("Model", TRUE, FALSE, FALSE)]
    /\ anonymizers = NoAnonymizers
    /\ gen = NoGen
    /\ classes = NoClasses
    /\ InitStore

NextMeta ==
    \E base \in 0..Len(classes.defs), attrs \in ClassBodies, meta \in MetaOptions :
        ClassStatement(base, attrs, meta)

SpecMeta == InitMeta /\ [][NextMeta]_vars

(***************************************************************************)
(* Root calls on an object graph with cycles: a customer and its e-mail    *)
(* rows refer to each other through the schema relations "emails" and      *)
(* "customer"; the e-mail rows' anonymizer class declares nested model     *)
(* anonymizers for two properties, "sibling" (the other e-mail row of the  *)
(* customer) and "itself" (the row itself).                                *)
(***************************************************************************)
DeclaredGraph ==
    [t \in Types |-> [n \in RelNames |->
        IF t = "Email" /\ n \in {"sibling", "itself"} THEN "model" ELSE "none"]]

EmailOnly == F("Email", <<"email">>, <<>>)

NameOnly == F("Customer", <<"first_name">>, <<>>)

\* The field matrices of a customer: one that returns to the customer through
\* its e-mail rows, one that visits each e-mail row and then its sibling.
CustomerGraphs ==
    {F("Customer", <<"first_name">>,
       <<Rel("emails", F("Email", <<"email">>, <<Rel("customer", NameOnly)>>))>>),
     F("Customer", <<>>,
       <<Rel("emails", F("Email", <<"email">>, <<Rel("sibling", EmailOnly)>>))>>)}

\* The field matrices of an e-mail row: three entries side by side, the row
\* itself twice below itself, and the sibling's sibling.
EmailGraphs ==
    {F("Email", <<"email">>,
       <<Rel("sibling", EmailOnly), Rel("customer", NameOnly), Rel("itself", EmailOnly)>>),
     F("Email", <<>>,
       <<Rel("itself", F("Email", <<"email">>, <<Rel("itself", EmailOnly)>>))>>),
     F("Email", <<"email">>,
       <<Rel("sibling", F("Email", <<"email">>, <<Rel("sibling", EmailOnly)>>))>>)}

Graphs(type) == IF type = "Email" THEN EmailGraphs ELSE CustomerGraphs

InitGraph ==
    /\ Meta \in {m \in Configs :
                    /\ m["Customer"] \in {Opt("Model", TRUE, FALSE, TRUE),
                                          Opt("Model", FALSE, FALSE, TRUE)}
                    /\ m["Email"] = Opt("Model", TRUE, FALSE, TRUE)}
    /\ anonymizers = DeclaredGraph
    /\ gen = NoGen
    /\ classes = NoClasses
    /\ InitStore

NextGraph ==
    \E o \in RootObjs, key \in BaseKeys \cup {None}, anonymization \in BOOLEAN :
        \E fields \in Graphs(TypeOf(o)) : Call(o, fields, key, anonymization, FALSE)

SpecGraph == InitGraph /\ [][NextGraph]_vars

(***************************************************************************)
(* Properties.  A step of Next is one root call: the unprimed variables    *)
(* are the store before it and the previous call (last, result, trace),    *)
(* the primed ones the store after it and the call itself.                 *)
(***************************************************************************)
Range(s) == {s[i] : i \in DOMAIN s}

Called == calls' = calls + 1

\* The (object, field) pairs a call created a record for.
Created(t) == {<<e.obj, e.field>> : e \in {x \in Range(t) : x.op = "create"}}

\* The keys a call derived for a field of an object.
KeysFor(t, o, name) ==
    {e.key : e \in {x \in Range(t) : x.op = "key" /\ x.obj = o /\ x.field = name}}

\* The previous call was an anonymize that returned, and this call is made on
\* the same object with an equal Fields.
SameTarget ==
    /\ Called /\ calls > 0
    /\ last.anonymization /\ result = "ok"
    /\ last'.obj = last.obj /\ last'.fields = last.fields

PrevSameTarget ==
    /\ calls >= 2
    /\ prev.call.anonymization /\ prev.result = "ok"
    /\ last.obj = prev.call.obj /\ last.fields = prev.call.fields

\* C1: when anonymize_obj is called twice on the same object and field set
\* with no deanonymize in between, the second call selects no local field of
\* the object (derives no key for one), does not save the object, creates or
\* deletes no AnonymizedData record of it, and leaves every stored value and
\* every record count of the object as it was.
C1_AnonymizeTwice ==
    [][(SameTarget /\ last'.anonymization) =>
          /\ \A e \in Range(trace') :
                e.obj = last.obj =>
                   /\ e.op \notin {"save", "create", "unmark"}
                   /\ e.op = "key" => e.field \notin Range(last.fields.local_fields)
          /\ \A n \in AnonymizerFields(TypeOf(last.obj)) :
                /\ vals'[<<last.obj, n>>] = vals[<<last.obj, n>>]
                /\ anon'[RecKey(last.obj, n)] = anon[RecKey(last.obj, n)]
      ]_vars

C1_Witness ==
    /\ PrevSameTarget /\ last.anonymization /\ result = "ok"
    /\ last.obj = "c1" /\ last.fields.local_fields = <<"first_name", "personal_id">>
    /\ anon[RecKey("c1", "first_name")] = 1 /\ anon[RecKey("c1", "personal_id")] = 1
    /\ vals[<<"c1", "first_name">>][1] = "enc"

\* Every type the previous call reached is reversible, and so is every field
\* anonymizer it transformed with.
AllReversible(t) ==
    /\ \A e \in Range(t) : e.op = "enter" => is_reversible(TypeOf(e.obj))
    /\ \A p \in Created(t) : FieldIsReversible(TypeOf(p[1]), p[2])

\* C2: when the types reached are reversible and the field anonymizers
\* invert under an equal key, anonymize_obj(obj, fields, base_key) followed by
\* deanonymize_obj(obj, fields, base_key) returns, derives for every field
\* the first call transformed (of the root and of every related object) the
\* same key as the first call did, restores the field to the value that was
\* anonymized, and leaves no active AnonymizedData record for it.
C2_RoundTrip ==
    [][(/\ SameTarget /\ ~last'.anonymization
        /\ last.key # None /\ last'.key = last.key
        /\ AllReversible(trace)) =>
          /\ result' = "ok"
          /\ \A p \in Created(trace) :
                /\ KeysFor(trace, p[1], p[2]) # {}
                /\ KeysFor(trace', p[1], p[2]) = KeysFor(trace, p[1], p[2])
                /\ vals[p][1] = "enc"
                /\ vals'[p] = vals[p][3]
                /\ anon'[RecKey(p[1], p[2])] = 0
      ]_vars

C2_Witness ==
    /\ PrevSameTarget /\ ~last.anonymization /\ result = "ok"
    /\ last.key # None /\ last.key = prev.call.key
    /\ last.obj = "c1"
    /\ last.fields = F("Customer", <<"first_name">>, <<Rel("emails", F("Email", <<"email">>, <<>>))>>)
    /\ \A p \in {<<"c1", "first_name">>, <<"e1", "email">>, <<"e2", "email">>} :
          /\ Event("unmark", p[1], p[2], None) \in Range(trace)
          /\ vals[p] = Raw(p[1], p[2])
          /\ anon[RecKey(p[1], p[2])] = 0

\* C3: update_obj with anonymization=False on a type whose
\* reversible_anonymization is False raises IrreversibleAnonymizerException
\* as the first thing the invocation does: nothing follows its entry but the
\* raise, which ends the whole call, and when the invocation is the root call
\* the stored values, rows, records and audit entries are what they were.
C3_Guard ==
    [][Called =>
          \A i \in DOMAIN trace' :
             (/\ trace'[i].op = "enter" /\ trace'[i].field = "deanonymize"
              /\ ~is_reversible(TypeOf(trace'[i].obj))) =>
                /\ Len(trace') = i + 1
                /\ trace'[i + 1] = Event("raise", trace'[i].obj,
                                         "IrreversibleAnonymizerException", None)
                /\ result' = "IrreversibleAnonymizerException"
                /\ i = 1 => /\ vals' = vals /\ rows' = rows
                            /\ anon' = anon /\ audit' = audit
      ]_vars

C3_Witness ==
    /\ calls >= 2 /\ ~last.anonymization
    /\ ~is_reversible(TypeOf(last.obj))
    /\ result = "IrreversibleAnonymizerException"
    /\ last.obj = "c1" /\ anon[RecKey("c1", "first_name")] = 1
    /\ vals[<<"c1", "first_name">>][1] = "enc"

\* The requested local fields of an object whose field anonymizer is declared
\* non-reversible.
IrreversibleOf(o, fields) ==
    {n \in Range(fields.local_fields) \cap AnonymizerFields(TypeOf(o)) :
        ~FieldIsReversible(TypeOf(o), n)}

\* An invocation of update_obj in deanonymize mode on a non-reversible type.
GuardedEntry(e) ==
    e.op = "enter" /\ e.field = "deanonymize" /\ ~is_reversible(TypeOf(e.obj))

\* C4: a deanonymize request on a field whose field anonymizer is declared
\* non-reversible leaves the field out of the selection: no key is derived
\* for it, its stored value and its AnonymizedData record are unchanged, and
\* the call raises IrreversibleAnonymizerException only where the guard of a
\* non-reversible type does.
C4_IrreversibleFieldSkipped ==
    [][(Called /\ ~last'.anonymization) =>
          \A n \in IrreversibleOf(last'.obj, last'.fields) :
             /\ KeysFor(trace', last'.obj, n) = {}
             /\ vals'[<<last'.obj, n>>] = vals[<<last'.obj, n>>]
             /\ anon'[RecKey(last'.obj, n)] = anon[RecKey(last'.obj, n)]
             /\ result' = "IrreversibleAnonymizerException" =>
                   \E e \in Range(trace') : GuardedEntry(e)
      ]_vars

\* C4 as stated: a deanonymize request on an anonymized field whose field
\* anonymizer is non-reversible fails with IrreversibleAnonymizerException
\* and leaves the stored value unchanged.
C4_IrreversibleFieldFails ==
    [][(Called /\ ~last'.anonymization) =>
          \A n \in IrreversibleOf(last'.obj, last'.fields) :
             anon[RecKey(last'.obj, n)] > 0 =>
                /\ result' = "IrreversibleAnonymizerException"
                /\ vals'[<<last'.obj, n>>] = vals[<<last'.obj, n>>]
      ]_vars

C4_Witness ==
    /\ PrevSameTarget /\ ~last.anonymization /\ result = "ok"
    /\ is_reversible("Customer")
    /\ last.obj = "c1" /\ last.fields.local_fields = <<"first_name", "personal_id">>
    /\ anon[RecKey("c1", "personal_id")] = 1 /\ vals[<<"c1", "personal_id">>][1] = "enc"
    /\ anon[RecKey("c1", "first_name")] = 0 /\ vals[<<"c1", "first_name">>] = Raw("c1", "first_name")

\* C5: anonymizing a root object with a one-to-many (or many-to-many) schema
\* relation in the requested field set invokes the update on every row the
\* relation held, and every such row that still exists after the call has
\* each requested field anonymized with exactly one active AnonymizedData
\* record of its own.
C5_RelationCascade ==
    [][(Called /\ last'.anonymization /\ result' = "ok") =>
          \A rf \in Range(last'.fields.related_fields) :
             SchemaField(TypeOf(last'.obj), rf.name) \in {"one_to_many", "many_to_many"} =>
                \A x \in Range(RelatedRows([rows |-> rows], last'.obj, rf.name)) :
                   /\ \E e \in Range(trace') :
                         e.op = "enter" /\ e.obj = x /\ e.field = "anonymize"
                   /\ x \in rows' =>
                         \A n \in Range(rf.fields.local_fields) :
                            /\ vals'[<<x, n>>][1] = "enc"
                            /\ anon'[RecKey(x, n)] = 1
      ]_vars

C5_Witness ==
    /\ calls >= 1 /\ last.anonymization /\ result = "ok"
    /\ last.obj = "c1"
    /\ last.fields = F("Customer", <<"first_name">>, <<Rel("emails", F("Email", <<"email">>, <<>>))>>)
    /\ \A x \in {"e1", "e2"} :
          /\ x \in rows
          /\ Event("create", x, "email", None) \in Range(trace)
          /\ vals[<<x, "email">>][1] = "enc"
          /\ anon[RecKey(x, "email")] = 1

\* This call is an anonymize of a Delete variant with "__SELF__" requested.
DeletesSelf ==
    /\ Called /\ last'.anonymization
    /\ IsDelete(TypeOf(last'.obj))
    /\ InSeq(DELETE_FIELD_NAME, last'.fields.local_fields)

\* C6: a Delete variant anonymizing with "__SELF__" among the local fields
\* transforms no field of the entity and creates no record for it; when the
\* call returns, every requested related field was recursed into before the
\* one deletion of the entity, the entity no longer exists, and the deletion
\* is followed by the purge of its history exactly when delete_auditlog is
\* configured; when the recursion raises, the entity is not deleted.
C6_DeleteSelf ==
    [][DeletesSelf =>
          /\ \A n \in AnonymizerFields(TypeOf(last'.obj)) :
                /\ vals'[<<last'.obj, n>>] = vals[<<last'.obj, n>>]
                /\ anon'[RecKey(last'.obj, n)] = anon[RecKey(last'.obj, n)]
                /\ KeysFor(trace', last'.obj, n) = {}
          /\ \A e \in Range(trace') :
                e.obj = last'.obj => e.op \notin {"save", "create", "unmark", "audit_save"}
          /\ result' # "ok" =>
                /\ last'.obj \in rows'
                /\ audit'[last'.obj] = audit[last'.obj]
                /\ \A e \in Range(trace') : e.op # "delete"
          /\ result' = "ok" =>
                /\ last'.obj \notin rows'
                /\ \E d \in DOMAIN trace' :
                      /\ trace'[d] = Event("delete", last'.obj, "", None)
                      /\ \A i \in 1..(d - 1) : trace'[i].op # "delete" \/ trace'[i].obj # last'.obj
                      /\ \A rf \in Range(last'.fields.related_fields) :
                            \E i \in 1..(d - 1) :
                               trace'[i] = Event(resolution_path(TypeOf(last'.obj), rf.name),
                                                 last'.obj, rf.name, None)
                      /\ IF Meta[TypeOf(last'.obj)].delete_auditlog
                         THEN /\ Len(trace') = d + 1
                              /\ trace'[d + 1] = Event("audit_delete", last'.obj, "", None)
                              /\ audit'[last'.obj] = <<>>
                         ELSE /\ Len(trace') = d
                              /\ audit'[last'.obj] = audit[last'.obj]
      ]_vars

C6_Witness ==
    /\ calls >= 1 /\ last.anonymization /\ result = "ok"
    /\ IsDelete("Customer") /\ Meta["Customer"].delete_auditlog
    /\ last.obj = "c1" /\ last.fields.local_fields = <<DELETE_FIELD_NAME, "first_name">>
    /\ "c1" \notin rows /\ audit["c1"] = <<>>
    /\ Event("create", "e1", "email", None) \in Range(trace)
    /\ anon[RecKey("c1", "first_name")] = 0 /\ vals[<<"c1", "first_name">>] = Raw("c1", "first_name")

\* The base update of this call's object on its Fields without "__SELF__".
BaseDeanonymize ==
    update_obj(Log(Start(last'.obj, Padded(<<>>), last'.fresh), "enter", last'.obj,
                   "deanonymize", last'.key),
               <<"root", TypeOf(last'.obj)>>, last'.obj, strip_self(last'.fields),
               last'.key, FALSE).st

\* C7: a Delete variant deanonymizing with "__SELF__" requested deletes no
\* row; the call leaves what ModelAnonymizerBase.update_obj leaves on the
\* field set minus "__SELF__" (values, records, history, result); and with
\* "__SELF__" alone the entity's values and records are untouched.
C7_DeanonymizeSelf ==
    [][(/\ Called /\ ~last'.anonymization
        /\ IsDelete(TypeOf(last'.obj))
        /\ InSeq(DELETE_FIELD_NAME, last'.fields.local_fields)) =>
          /\ rows' = rows
          /\ \A e \in Range(trace') : e.op # "delete"
          /\ vals' = BaseDeanonymize.vals
          /\ anon' = BaseDeanonymize.anon
          /\ audit' = BaseDeanonymize.audit
          /\ trace' = BaseDeanonymize.trace
          /\ result' = (IF Failed(BaseDeanonymize) THEN BaseDeanonymize.exc ELSE "ok")
          /\ last'.fields = F(TypeOf(last'.obj), <<DELETE_FIELD_NAME>>, <<>>) =>
                \A n \in AnonymizerFields(TypeOf(last'.obj)) :
                   /\ vals'[<<last'.obj, n>>] = vals[<<last'.obj, n>>]
                   /\ anon'[RecKey(last'.obj, n)] = anon[RecKey(last'.obj, n)]
      ]_vars

C7_Witness ==
    /\ calls >= 2 /\ ~last.anonymization /\ result = "ok"
    /\ IsDelete("Customer")
    /\ last.obj = "c1" /\ last.fields.local_fields = <<DELETE_FIELD_NAME, "first_name">>
    /\ "c1" \in rows
    /\ Event("unmark", "c1", "first_name", None) \in Range(trace)
    /\ anon[RecKey("c1", "first_name")] = 0 /\ vals[<<"c1", "first_name">>] = Raw("c1", "first_name")

\* C8: after a Delete variant was called in deanonymize mode with a Fields
\* containing "__SELF__", that Fields still contains "__SELF__" in its local
\* fields.
C8_FieldsKept ==
    (/\ calls > 0 /\ ~last.anonymization
     /\ IsDelete(TypeOf(last.obj))
     /\ InSeq(DELETE_FIELD_NAME, last.fields.local_fields)) =>
        InSeq(DELETE_FIELD_NAME, held.local_fields)

\* No requested local field of the call's object lacks an active record.
SelectsNone ==
    \A n \in Range(last'.fields.local_fields) :
        is_field_anonymized([anon |-> anon], last'.obj, n)

\* C9: for a type configured with delete_auditlog, an anonymize update that
\* transforms at least one local field of the object deletes all history
\* entries of the object, one that selects no local field deletes none, and
\* a deanonymize update performs no deletion and no rewrite of the history
\* (also when anonymize_auditlog is configured as well).
C9_AuditDeletion ==
    [][(/\ Called /\ Meta[TypeOf(last'.obj)].delete_auditlog
        /\ ~InSeq(DELETE_FIELD_NAME, last'.fields.local_fields)) =>
          /\ ~last'.anonymization =>
                /\ audit'[last'.obj] = audit[last'.obj]
                /\ \A e \in Range(trace') :
                      e.obj = last'.obj => e.op \notin {"audit_delete", "audit_save"}
          /\ (last'.anonymization /\ SelectsNone) => audit'[last'.obj] = audit[last'.obj]
          /\ (last'.anonymization /\ ~SelectsNone /\ result' = "ok") =>
                audit'[last'.obj] = <<>>
      ]_vars

\* C9 as stated: every anonymize update of an object of a type configured
\* with delete_auditlog deletes all history entries of the object.
C9_EveryAnonymizeDeletes ==
    [][(/\ Called /\ Meta[TypeOf(last'.obj)].delete_auditlog
        /\ last'.anonymization /\ result' = "ok") =>
          audit'[last'.obj] = <<>>
      ]_vars

C9_Witness ==
    /\ calls >= 1 /\ last.anonymization /\ result = "ok"
    /\ Meta["Customer"].delete_auditlog /\ Meta["Customer"].anonymize_auditlog
    /\ last.obj = "c1" /\ "c1" \in rows
    /\ Event("audit_delete", "c1", "", None) \in Range(trace)
    /\ audit["c1"] = <<>> /\ anon[RecKey("c1", "first_name")] = 1

\* The requested local fields of the call's object without an active record.
Selected ==
    {n \in Range(last'.fields.local_fields) :
        ~is_field_anonymized([anon |-> anon], last'.obj, n)}

RewritesAudit ==
    /\ Called /\ last'.anonymization /\ result' = "ok"
    /\ Meta[TypeOf(last'.obj)].anonymize_auditlog
    /\ ~Meta[TypeOf(last'.obj)].delete_auditlog
    /\ ~InSeq(DELETE_FIELD_NAME, last'.fields.local_fields)

\* C10: for a type configured with anonymize_auditlog and not
\* delete_auditlog, after anonymizing a set of fields every history entry of
\* the object that records one of them holds what the field's transform
\* makes of the recorded value under a key derived for that field in this
\* call, which for a reversible type is the key the stored value was
\* anonymized with; no entry is added or removed, and the values recorded
\* for other fields are unchanged.
C10_AuditRewrite ==
    [][RewritesAudit =>
          /\ Len(audit'[last'.obj]) = Len(audit[last'.obj])
          /\ \A i \in DOMAIN audit[last'.obj] :
                /\ DOMAIN audit'[last'.obj][i] = DOMAIN audit[last'.obj][i]
                /\ \A n \in DOMAIN audit[last'.obj][i] :
                      IF n \in Selected
                      THEN /\ \E k \in KeysFor(trace', last'.obj, n) :
                                 audit'[last'.obj][i][n] = Anonymized(audit[last'.obj][i][n], k)
                           /\ is_reversible(TypeOf(last'.obj)) =>
                                 audit'[last'.obj][i][n] =
                                    Anonymized(audit[last'.obj][i][n], vals'[<<last'.obj, n>>][2])
                      ELSE audit'[last'.obj][i][n] = audit[last'.obj][i][n]
      ]_vars

\* C10 as stated: every rewritten entry matches the anonymized value, that
\* is, holds the recorded value transformed as the stored value was.
C10_EntryMatchesValue ==
    [][RewritesAudit =>
          \A i \in DOMAIN audit[last'.obj] :
             \A n \in DOMAIN audit[last'.obj][i] \cap Selected :
                audit'[last'.obj][i][n] =
                   Anonymized(audit[last'.obj][i][n], vals'[<<last'.obj, n>>][2])
      ]_vars

C10_Witness ==
    /\ calls >= 1 /\ last.anonymization /\ result = "ok"
    /\ Meta["Email"].anonymize_auditlog /\ ~Meta["Email"].delete_auditlog
    /\ last.obj = "e1" /\ last.fields.local_fields = <<"email">>
    /\ vals[<<"e1", "email">>][1] = "enc"
    /\ Len(audit["e1"]) = 2
    /\ \A i \in 1..2 :
          audit["e1"][i]["email"] = Anonymized(InitAudit["e1"][i]["email"], vals[<<"e1", "email">>][2])

\* C11: after any sequence of anonymize_obj and deanonymize_obj calls there
\* is at most one active AnonymizedData record per (type, object id, field),
\* and a field the latest call deanonymized has no active record left: its
\* record was deleted.
C11_OneActiveRecord ==
    /\ \A k \in RecKeys : anon[k] <= 1
    /\ \A e \in Range(trace) : e.op = "unmark" => anon[RecKey(e.obj, e.field)] = 0

C11_Witness ==
    /\ calls >= 2 /\ last.anonymization /\ result = "ok"
    /\ prev.call.anonymization /\ prev.result = "ok"
    /\ prev.call.obj = "c1" /\ prev.call.fields.local_fields = <<"first_name">>
    /\ last.obj = "c1" /\ last.fields.local_fields = <<"first_name", "personal_id">>
    /\ Event("create", "c1", "personal_id", None) \in Range(trace)
    /\ anon[RecKey("c1", "first_name")] = 1 /\ anon[RecKey("c1", "personal_id")] = 1

\* The key derivations of the latest call.
KeyEvents == {e \in Range(trace) : e.op = "key"}

\* C12: for one object and one base secret, _get_encryption_key yields
\* different keys for two different field names.
C12_KeyIndependence ==
    \A a \in KeyEvents : \A b \in KeyEvents :
        (a.obj = b.obj /\ a.key[2] = b.key[2] /\ a.field # b.field) => a.key # b.key

C12_Witness ==
    \E a \in KeyEvents : \E b \in KeyEvents :
        /\ a.obj = "c1" /\ b.obj = "c1"
        /\ a.field = "first_name" /\ b.field = "personal_id"
        /\ a.key[2] = <<"K1">> /\ b.key[2] = <<"K1">>
        /\ vals[<<"c1", "first_name">>] = Anonymized(Raw("c1", "first_name"), a.key)
        /\ vals[<<"c1", "personal_id">>] = Anonymized(Raw("c1", "personal_id"), b.key)

\* This call runs the base update of a reversible type with no base key
\* supplied or held, and the local selection is not empty.
MissingKey ==
    /\ Called /\ is_reversible(TypeOf(last'.obj))
    /\ last'.key = None
    /\ (last'.fresh \/ baseKey[<<"root", TypeOf(last'.obj)>>] = None)
    /\ ~(last'.anonymization /\ IsDelete(TypeOf(last'.obj))
         /\ InSeq(DELETE_FIELD_NAME, last'.fields.local_fields))
    /\ raw_local_fields([anon |-> anon], <<"root", TypeOf(last'.obj)>>, last'.obj,
                        Without(last'.fields.local_fields, DELETE_FIELD_NAME),
                        last'.anonymization) # <<>>

\* C13: on a reversible type with no base key available, an update_obj call
\* that selects at least one local field raises NotImplementedError during
\* key derivation; nothing was saved, no audit entry deleted or rewritten, no
\* AnonymizedData record created or deleted, and no related object visited.
C13_MissingKey ==
    [][MissingKey =>
          /\ result' = "NotImplementedError"
          /\ vals' = vals /\ rows' = rows /\ anon' = anon /\ audit' = audit
          /\ \A e \in Range(trace') : e.op \in {"enter", "raise"} /\ e.obj = last'.obj
      ]_vars

C13_Witness ==
    /\ calls >= 2 /\ result = "NotImplementedError"
    /\ ~last.anonymization /\ last.key = None /\ last.fresh
    /\ last.obj = "c1" /\ is_reversible("Customer")
    /\ InSeq("first_name", last.fields.local_fields)
    /\ anon[RecKey("c1", "first_name")] = 1
    /\ vals[<<"c1", "first_name">>][1] = "enc"
    /\ Len(trace) = 2

\* The requested local fields of this call's object that have a field
\* anonymizer.
Requested ==
    Range(last'.fields.local_fields) \cap AnonymizerFields(TypeOf(last'.obj))

\* The requested fields a deanonymize update may transform.
Deanonymizable ==
    {n \in Requested : anon[RecKey(last'.obj, n)] > 0
                       /\ FieldIsReversible(TypeOf(last'.obj), n)}

\* C17: in a deanonymize update on a reversible type, a requested local
\* field that has no active record, or whose field anonymizer is not
\* reversible, keeps its stored value and its record state and no key is
\* derived for it; when no requested field qualifies and no related field is
\* requested the call returns without error; and when the call returns,
\* every qualifying field has lost its record.
C17_DeanonymizeSelection ==
    [][(Called /\ ~last'.anonymization /\ is_reversible(TypeOf(last'.obj))) =>
          /\ \A n \in Requested \ Deanonymizable :
                /\ vals'[<<last'.obj, n>>] = vals[<<last'.obj, n>>]
                /\ anon'[RecKey(last'.obj, n)] = anon[RecKey(last'.obj, n)]
                /\ KeysFor(trace', last'.obj, n) = {}
          /\ (Deanonymizable = {} /\ last'.fields.related_fields = <<>>) =>
                result' = "ok"
          /\ result' = "ok" =>
                \A n \in Deanonymizable :
                   /\ anon'[RecKey(last'.obj, n)] = 0
                   /\ \E k \in KeysFor(trace', last'.obj, n) :
                         vals'[<<last'.obj, n>>] = Deanonymized(vals[<<last'.obj, n>>], k)
      ]_vars

C17_Witness ==
    /\ calls >= 2 /\ ~last.anonymization /\ result = "ok"
    /\ prev.call.anonymization /\ prev.result = "ok"
    /\ prev.call.obj = "c1" /\ prev.call.fields.local_fields = <<"first_name">>
    /\ last.obj = "c1" /\ last.fields.local_fields = <<"first_name", "personal_id">>
    /\ Event("unmark", "c1", "first_name", None) \in Range(trace)
    /\ KeysFor(trace, "c1", "personal_id") = {}
    /\ vals[<<"c1", "personal_id">>] = Raw("c1", "personal_id")
    /\ vals[<<"c1", "first_name">>] = Raw("c1", "first_name")

(***************************************************************************)
(* chunked_queryset_iterator.                                              *)
(***************************************************************************)
\* The rows of the batches, batch after batch.
RECURSIVE Flatten(_)
Flatten(batches) ==
    IF batches = <<>> THEN <<>> ELSE Head(batches) \o Flatten(Tail(batches))

StrictlyAscending(q) == \A i \in 1..(Len(q) - 1) : q[i] < q[i + 1]

\* A generator of the ordered mode whose rows nobody has deleted.
OrderedUnchanged == gen.pc # "none" /\ ~gen.delete_qs /\ ~gen.changed

\* next() was called on a generator that had yielded its last row.
Exhausted == gen.nexts > Len(gen.yielded)

\* C14: in the ordered mode over rows that do not change, the batches come
\* in strictly ascending primary key, within a batch and from one batch to
\* the next (so no row is in two batches), none holds more than chunk_size
\* rows, and once the iteration has ended every row of the queryset is in a
\* batch -- for every primary key, 0 included.
C14_OrderedBatches ==
    OrderedUnchanged =>
        /\ StrictlyAscending(Flatten(gen.yielded))
        /\ \A b \in DOMAIN gen.yielded : Len(gen.yielded[b]) <= gen.chunk_size
        /\ Range(Flatten(gen.yielded)) \subseteq Range(gen.queryset)
        /\ Exhausted => Range(Flatten(gen.yielded)) = Range(gen.queryset)

\* C15: in the ordered mode over a non-empty queryset whose rows do not
\* change, the generator never raises and never yields an empty batch, and
\* the next() after the batch with the highest primary key ends it.
C15_NormalStop ==
    (OrderedUnchanged /\ gen.original # <<>>) =>
        /\ gen.pc # "raised"
        /\ \A b \in DOMAIN gen.yielded : gen.yielded[b] # <<>>
        /\ Exhausted => gen.pc = "stopped"

\* A next() of the delete mode.
DeleteNext == gen.delete_qs /\ gen'.nexts = gen.nexts + 1

\* Every batch was deleted before the next one was asked for.
EveryBatchDeleted(g) == g.delete_qs /\ ~g.kept

\* C16: in the delete mode a next() yields the first chunk_size rows of the
\* queryset as it stands, and ends the generator when the queryset is empty;
\* while the consumer deletes every batch before asking for the next one, no
\* row is yielded twice, so there are at most as many batches as original
\* rows, and the generator ends having yielded every original row exactly
\* once; for an empty queryset it yields nothing.
C16_DeleteMode ==
    [][/\ DeleteNext =>
            IF gen.queryset = <<>>
            THEN gen'.pc = "stopped" /\ gen'.yielded = gen.yielded
            ELSE /\ gen'.pc = "yielded"
                 /\ gen'.yielded = Append(gen.yielded,
                                          SubSeq(gen.queryset, 1,
                                                 Min(gen.chunk_size, Len(gen.queryset))))
       /\ (gen' # gen /\ EveryBatchDeleted(gen')) =>
            /\ Len(Flatten(gen'.yielded)) = Cardinality(Range(Flatten(gen'.yielded)))
            /\ Range(Flatten(gen'.yielded)) \subseteq Range(gen'.original)
            /\ \A b \in DOMAIN gen'.yielded : gen'.yielded[b] # <<>>
            /\ gen'.pc = "stopped" =>
                  Range(Flatten(gen'.yielded)) = Range(gen'.original)
            /\ gen'.nexts > Len(gen'.original) => gen'.pc = "stopped"
      ]_vars

\* Three rows, chunks of two: two batches, each deleted, then the end.
C16_Witness ==
    /\ gen.pc = "stopped"
    /\ EveryBatchDeleted(gen)
    /\ gen.chunk_size = 2
    /\ Len(gen.original) = 3
    /\ Len(gen.yielded) = 2
    /\ gen.yielded[1] = SubSeq(gen.original, 1, 2)
    /\ gen.queryset = <<>>

(***************************************************************************)
(* Relation resolution.                                                    *)
(***************************************************************************)
Paths == {"anonymizer", "field", "property"}

\* The related names of the latest call's field matrix, in order.
RelatedNames(call) == [i \in DOMAIN call.fields.related_fields |->
                          call.fields.related_fields[i].name]

\* The positions in a trace of the events that resolve `name` on `o`.
Resolutions(t, o, name) ==
    {j \in DOMAIN t : t[j].op \in Paths /\ t[j].obj = o /\ t[j].field = name}

\* The rows entered between event j of a trace and the next resolution.
RECURSIVE EnteredAfter(_, _)
EnteredAfter(t, j) ==
    IF j >= Len(t) \/ t[j + 1].op \in Paths
    THEN {}
    ELSE (IF t[j + 1].op = "enter" THEN {t[j + 1].obj} ELSE {})
         \cup EnteredAfter(t, j + 1)

\* C18: a call that ends normally resolves every related entry of its
\* matrix exactly once, in the matrix's order, by the first that applies
\* of: the RelationAnonymizer declared under the name, the schema field of
\* that name, the attribute of the object; under a name that is both a
\* declared RelationAnonymizer and a schema field, the rows entered are the
\* relation anonymizer's objects, not the rows of the schema relation.
C18_ResolutionOrder ==
    [][(Called /\ result' = "ok") =>
          \A i \in DOMAIN RelatedNames(last') :
             /\ Cardinality(Resolutions(trace', last'.obj, RelatedNames(last')[i])) = 1
             /\ \A j \in Resolutions(trace', last'.obj, RelatedNames(last')[i]) :
                   /\ trace'[j].op =
                        IF anonymizers[TypeOf(last'.obj)][RelatedNames(last')[i]] = "relation"
                        THEN "anonymizer"
                        ELSE IF SchemaField(TypeOf(last'.obj), RelatedNames(last')[i]) # "none"
                        THEN "field"
                        ELSE "property"
                   /\ trace'[j].op = "anonymizer" =>
                        EnteredAfter(trace', j) = {"e1"} \cap rows'
                   /\ trace'[j].op = "field" =>
                        EnteredAfter(trace', j) = {"e1", "e2"} \cap rows'
                   /\ \A i2 \in DOMAIN RelatedNames(last') :
                         \A j2 \in Resolutions(trace', last'.obj, RelatedNames(last')[i2]) :
                            i < i2 => j < j2
      ]_vars

\* "emails" is a schema field and a declared RelationAnonymizer: the call
\* went through the relation anonymizer and reached only its object.
C18_Witness ==
    /\ result = "ok"
    /\ last.anonymization
    /\ anonymizers["Customer"]["emails"] = "relation"
    /\ \E j \in DOMAIN trace : trace[j] = Event("anonymizer", "c1", "emails", None)
    /\ ~\E j \in DOMAIN trace : trace[j].op = "field"
    /\ vals[<<"e1", "email">>] # Raw("e1", "email")
    /\ vals[<<"e2", "email">>] = Raw("e2", "email")

\* A name that is no declared anonymizer, no schema field and no attribute
\* of the type.
Unknown(type, name) ==
    /\ anonymizers[type][name] = "none"
    /\ SchemaField(type, name) = "none"
    /\ AttrKind(type, name) = "absent"

HasUnknown(call) ==
    \E i \in DOMAIN RelatedNames(call) : Unknown(TypeOf(call.obj), RelatedNames(call)[i])

\* An attribute of the type, reached as a property, whose value is None.
EmptyAttribute(type, name) ==
    /\ anonymizers[type][name] # "relation"
    /\ SchemaField(type, name) = "none"
    /\ AttrKind(type, name) = "none"

StoreUnchanged == vals' = vals /\ rows' = rows /\ anon' = anon /\ audit' = audit

Unreachable(type, name) ==
    /\ anonymizers[type][name] = "model"
    /\ SchemaField(type, name) = "none"
    /\ AttrKind(type, name) \in {"other", "absent"}

\* C20: when a related entry of a call's matrix is an unreachable
\* attribute, the call still ends normally; the entry is resolved as a
\* property, a warning for it follows at once and no row is entered for it;
\* every entry after it in the matrix is then resolved and its rows are
\* entered.
C20_UnreachableNonFatal ==
    [][(Called /\ ~HasUnknown(last')) =>
          \A i \in DOMAIN RelatedNames(last') :
             Unreachable(TypeOf(last'.obj), RelatedNames(last')[i]) =>
                /\ result' = "ok"
                /\ \A j \in DOMAIN trace' : trace'[j].op # "raise"
                /\ \E j \in Resolutions(trace', last'.obj, RelatedNames(last')[i]) :
                      /\ trace'[j].op = "property"
                      /\ j < Len(trace')
                      /\ trace'[j + 1] =
                            Event("warn", last'.obj, RelatedNames(last')[i], None)
                      /\ EnteredAfter(trace', j) = {}
                /\ \A i2 \in DOMAIN RelatedNames(last') :
                      i < i2 =>
                         \E j2 \in Resolutions(trace', last'.obj, RelatedNames(last')[i2]) :
                            EnteredAfter(trace', j2) =
                               Range(related_targets(
                                        [rows |-> rows'], TypeOf(last'.obj), last'.obj,
                                        RelatedNames(last')[i2]).objs)
      ]_vars

\* "label" is a string: the call warned about it and went on to anonymize
\* both e-mail rows of the schema relation named after it.
C20_Witness ==
    /\ result = "ok"
    /\ last.anonymization
    /\ RelatedNames(last) = <<"label", "emails">>
    /\ anonymizers["Customer"]["emails"] = "none"
    /\ \E j \in DOMAIN trace : trace[j] = Event("warn", "c1", "label", None)
    /\ vals[<<"e1", "email">>] # Raw("e1", "email")
    /\ vals[<<"e2", "email">>] # Raw("e2", "email")

(***************************************************************************)
(* Records and stored values.                                              *)
(***************************************************************************)
\* The stored value is the result of a forward transform that has not been
\* undone.
IsAnonymizedForm(v) == v # None /\ v[1] = "enc"

\* C25: whatever calls were made, a local field of an object that exists
\* has an active AnonymizedData record exactly when its stored value is in
\* the anonymized form.  (It holds after calls that ended with an exception
\* as well.)
C25_MarkerMatchesValue ==
    \A of \in ObjFields :
        of[1] \in rows =>
            (anon[RecKey(of[1], of[2])] > 0 <=> IsAnonymizedForm(vals[of]))

\* Two calls that returned: the customer's name was anonymized and given
\* back, the e-mail rows reached by the first call are still anonymized.
C25_Witness ==
    /\ calls = 2 /\ result = "ok" /\ prev.result = "ok"
    /\ prev.call.anonymization /\ ~last.anonymization
    /\ vals[<<"c1", "first_name">>] = Raw("c1", "first_name")
    /\ anon[RecKey("c1", "first_name")] = 0
    /\ "e1" \in rows
    /\ IsAnonymizedForm(vals[<<"e1", "email">>])
    /\ anon[RecKey("e1", "email")] = 1

(***************************************************************************)
(* Where a call's keys come from.                                          *)
(***************************************************************************)
\* The base secrets hashed into the keys a call derived on object o.
BasesOn(t, o) == {e.key[2] : e \in {x \in Range(t) : x.op = "key" /\ x.obj = o}}

\* C24: every key a call derives on its own object hashes, on a reversible
\* type, the base key the call was given (so a call that was given none
\* derives no key: never one from a key an earlier call left on the
\* anonymizer instance) and, on a non-reversible type, a random string
\* drawn in the call; and every related object is entered with the key
\* derived just before from the parent.
C24_KeyFromCallOnly ==
    [][Called =>
          /\ \A b \in BasesOn(trace', last'.obj) :
                IF is_reversible(TypeOf(last'.obj)) THEN b = last'.key ELSE b[1] = "rnd"
          /\ \A j \in 2..Len(trace') :
                trace'[j].op = "enter" =>
                   /\ trace'[j - 1].op = "key"
                   /\ trace'[j - 1].obj = last'.obj
                   /\ trace'[j].key = trace'[j - 1].key
      ]_vars

(***************************************************************************)
(* Field maps of anonymizer classes.                                       *)
(***************************************************************************)
\* The class, among c and its ancestors, nearest to c whose body binds an
\* anonymizer of the wanted kind to `name`; 0 when none does.
RECURSIVE Declaring(_, _, _, _)
Declaring(defs, c, name, fields_only) ==
    IF c = 0 \/ (fields_only /\ ~IsFieldAnonymizer(name)) THEN 0
    ELSE IF name \in defs[c].attrs THEN c
    ELSE Declaring(defs, defs[c].base, name, fields_only)

\* C26: after any sequence of class definitions, the `fields` map of every
\* anonymizer class holds exactly the field anonymizers declared in its own
\* body and in the bodies of its ancestors, and its `anonymizers` map
\* exactly the anonymizers declared there -- under no name an anonymizer of
\* a subclass or of a sibling.
C26_FieldMapsPerClass ==
    \A c \in DOMAIN classes.defs :
        \A n \in AttrNames :
            /\ classes.defs[c].fields # 0 =>
                  classes.dicts[classes.defs[c].fields][n]
                     = Declaring(classes.defs, c, n, TRUE)
            /\ classes.defs[c].anonymizers # 0 =>
                  classes.dicts[classes.defs[c].anonymizers][n]
                     = Declaring(classes.defs, c, n, FALSE)

(***************************************************************************)
(* Failure inside a root call.                                             *)
(***************************************************************************)
WriteOps == {"audit_delete", "audit_save", "save", "create", "unmark", "delete"}

\* The "enter" event of the update_obj invocation that logged event n.
InvocationOf(t, lv, n) ==
    CHOOSE j \in 1..n :
        /\ t[j].op = "enter" /\ lv[j] = lv[n]
        /\ \A k \in (j + 1)..n : ~(t[k].op = "enter" /\ lv[k] = lv[n])

\* The last record event of a field in a trace: "create", "unmark" or "none".
LastMark(t, o, name) ==
    LET at == {i \in 1..Len(t) : t[i].op \in {"create", "unmark"}
                                 /\ t[i].obj = o /\ t[i].field = name}
    IN IF at = {} THEN "none" ELSE t[CHOOSE i \in at : \A k \in at : k <= i].op

Saved(t) == {t[i].obj : i \in {k \in 1..Len(t) : t[k].op = "save"}}

\* C21: when a root call ends with an exception, the exception is the last
\* thing that happened in the call (no object is processed after it); the
\* invocation that raised it has written nothing for its object; and what
\* was written before is in the store after the call: a field whose record
\* was created is anonymized and has its record, a field whose record was
\* removed is restored and has none, and an object that was not saved is
\* as it was before the call.
C21_NoRollback ==
    [][result' # "ok" =>
          /\ trace' # <<>>
          /\ trace'[Len(trace')].op = "raise"
          /\ \A i \in InvocationOf(trace', levels', Len(trace'))..Len(trace') :
                levels'[i] = levels'[Len(trace')] => trace'[i].op \notin WriteOps
          /\ \A of \in ObjFields :
                /\ LastMark(trace', of[1], of[2]) = "create" =>
                      /\ anon'[RecKey(of[1], of[2])] > 0
                      /\ IsAnonymizedForm(vals'[of])
                /\ LastMark(trace', of[1], of[2]) = "unmark" =>
                      /\ anon'[RecKey(of[1], of[2])] = 0
                      /\ ~IsAnonymizedForm(vals'[of])
                /\ of[1] \notin Saved(trace') =>
                      /\ vals'[of] = vals[of]
                      /\ anon'[RecKey(of[1], of[2])] = anon[RecKey(of[1], of[2])]]_vars

\* An e-mail row, its sibling and its customer were anonymized, the
\* customer's anonymizer is not reversible; giving the three back restored
\* the row and its sibling, failed at the customer, which is still
\* anonymized, and never came to the third entry of the matrix.
C21_Witness ==
    /\ result = "IrreversibleAnonymizerException"
    /\ last.obj = "e1" /\ ~last.anonymization
    /\ Len(last.fields.related_fields) = 3
    /\ trace[Len(trace)].op = "raise" /\ trace[Len(trace)].obj = "c1"
    /\ {"e1", "e2"} \subseteq Saved(trace)
    /\ vals[<<"e1", "email">>] = Raw("e1", "email")
    /\ vals[<<"e2", "email">>] = Raw("e2", "email")
    /\ anon[RecKey("e1", "email")] = 0 /\ anon[RecKey("e2", "email")] = 0
    /\ IsAnonymizedForm(vals[<<"c1", "first_name">>])
    /\ anon[RecKey("c1", "first_name")] > 0
    /\ ~\E i \in 1..Len(trace) : trace[i].op = "property" /\ trace[i].field = "itself"

(***************************************************************************)
(* The order of a traversal.                                               *)
(***************************************************************************)
PathOps == {"anonymizer", "field", "property"}

\* Event k belongs to the invocation entered at j or to one below it.
Within(t, lv, j, k) == lv[k] > lv[j] \/ (lv[k] = lv[j] /\ t[k].op # "enter")

\* The "enter" event of the invocation that called the one entered at k, and
\* the related-field entry it was processing then.
ParentOf(t, lv, k) ==
    CHOOSE p \in 1..k : /\ t[p].op = "enter" /\ lv[p] = lv[k] - 1
                        /\ \A q \in (p + 1)..k : ~(t[q].op = "enter" /\ lv[q] = lv[k] - 1)

EntryOf(t, lv, k) ==
    CHOOSE q \in 1..k : /\ t[q].op \in PathOps /\ lv[q] = lv[k] - 1
                        /\ \A r \in (q + 1)..k : ~(t[r].op \in PathOps /\ lv[r] = lv[k] - 1)

Names(fields) == [i \in DOMAIN fields.related_fields |-> fields.related_fields[i].name]

\* The Fields given to the invocation entered at j, found in the Fields of
\* the root call by the names of the entries that led to it.
RECURSIVE FieldsOf(_, _, _, _)
FieldsOf(t, lv, j, root) ==
    IF lv[j] = 1 THEN root
    ELSE LET pf == FieldsOf(t, lv, ParentOf(t, lv, j), root)
             i  == CHOOSE i \in DOMAIN pf.related_fields :
                       pf.related_fields[i].name = t[EntryOf(t, lv, j)].field
         IN pf.related_fields[i].fields

\* The names of the related-field entries the invocation entered at j itself
\* processed, in the order it began them: those logged at its level from
\* event k on, up to the end of the invocation, its subtree included.
RECURSIVE OwnEntries(_, _, _, _)
OwnEntries(t, lv, j, k) ==
    IF k > Len(t) \/ (k > j /\ ~Within(t, lv, j, k)) THEN <<>>
    ELSE (IF lv[k] = lv[j] /\ t[k].op \in PathOps THEN <<t[k].field>> ELSE <<>>)
         \o OwnEntries(t, lv, j, k + 1)

IsPrefix(a, b) == Len(a) <= Len(b) /\ \A i \in 1..Len(a) : a[i] = b[i]

\* The number of invocations entered one level below, from event q to k.
EnteredBelow(t, lv, q, k) ==
    Cardinality({i \in q..k : t[i].op = "enter" /\ lv[i] = lv[q] + 1})

\* The rows entry q of a traversal leads to, as they are after the call (no
\* call of the base variant adds or removes a row).
RowsOf(t, q) ==
    related_targets([rows |-> rows'], TypeOf(t[q].obj), t[q].obj, t[q].field).objs

\* C22: in every update_obj invocation of a root call of the base variant,
\* (1) what the invocation itself does concerns its own object; (2) its
\* audit interaction, its save and its record updates all come before its
\* first related-field entry and before anything is done to another object;
\* (3) its related-field entries are begun in the order of its Fields, all
\* of them when the call returns; (4) the objects of an entry are entered
\* one after another in the order of the relation, each with its whole
\* subtree before the next.
C22_DepthFirstInOrder ==
    [][\A j \in 1..Len(trace') :
          /\ trace'[j].obj = trace'[InvocationOf(trace', levels', j)].obj
          /\ trace'[j].op \in WriteOps =>
                \A i \in InvocationOf(trace', levels', j)..j :
                    levels'[i] = levels'[j] /\ trace'[i].op \notin PathOps
          /\ trace'[j].op = "enter" =>
             /\ IsPrefix(OwnEntries(trace', levels', j, j),
                         Names(FieldsOf(trace', levels', j, last'.fields)))
             /\ result' = "ok" =>
                   OwnEntries(trace', levels', j, j)
                      = Names(FieldsOf(trace', levels', j, last'.fields))
             /\ levels'[j] > 1 =>
                   /\ trace'[EntryOf(trace', levels', j)].obj
                         = trace'[ParentOf(trace', levels', j)].obj
                   /\ ParentOf(trace', levels', j) < EntryOf(trace', levels', j)
                   /\ EnteredBelow(trace', levels', EntryOf(trace', levels', j), j)
                         <= Len(RowsOf(trace', EntryOf(trace', levels', j)))
                   /\ trace'[j].obj
                         = RowsOf(trace', EntryOf(trace', levels', j))
                              [EnteredBelow(trace', levels', EntryOf(trace', levels', j), j)]]_vars

\* A call on an e-mail row with three entries side by side returned: the
\* row, its sibling and its customer were saved, the three entries were
\* begun by the root invocation, the third led to the row itself again.
C22_Witness ==
    /\ result = "ok" /\ last.obj = "e1" /\ last.anonymization
    /\ Names(last.fields) = <<"sibling", "customer", "itself">>
    /\ Saved(trace) = {"e1", "e2", "c1"}
    /\ OwnEntries(trace, levels, 1, 1) = <<"sibling", "customer", "itself">>
    /\ \E i, j, k \in 1..Len(trace) :
          /\ i < j /\ j < k
          /\ trace[i].op = "save" /\ trace[i].obj = "e1" /\ levels[i] = 1
          /\ trace[j].op = "save" /\ trace[j].obj = "e2" /\ levels[j] = 2
          /\ trace[k].op = "enter" /\ trace[k].obj = "e1" /\ levels[k] = 2

(***************************************************************************)
(* Cycles in the object graph.                                             *)
(***************************************************************************)
Max(S) == CHOOSE x \in S : \A y \in S : y <= x

\* The depth of a Fields tree: 1 for a Fields with no related entry.
RECURSIVE Depth(_)
Depth(fields) ==
    1 + Max({0} \cup {Depth(fields.related_fields[i].fields) :
                        i \in DOMAIN fields.related_fields})

Entered(t, lv, o) == {lv[i] : i \in {k \in 1..Len(t) : t[k].op = "enter" /\ t[k].obj = o}}

\* C23: every root call comes to an end, with a result, and no update_obj
\* invocation of it is nested deeper than the Fields tree of the call is
\* deep, although the rows refer to each other and to themselves.
C23_DepthBoundedByFields ==
    [][/\ result' \in {"ok", "IrreversibleAnonymizerException", "NotImplementedError",
                       "RuntimeError"}
       /\ Len(levels') = Len(trace')
       /\ \A i \in 1..Len(levels') : levels'[i] \in 1..Depth(last'.fields)]_vars

\* Two calls on rows that refer to each other and to themselves returned:
\* one on the customer whose matrix leads through the e-mail rows back to
\* the customer, then one that entered the same e-mail row at three levels.
C23_Witness ==
    /\ calls = 2 /\ result = "ok" /\ prev.result = "ok"
    /\ last.obj = "e1" /\ prev.call.obj = "c1"
    /\ Depth(last.fields) = 3 /\ Depth(prev.call.fields) = 3
    /\ Names(prev.call.fields) = <<"emails">>
    /\ Names(prev.call.fields.related_fields[1].fields) = <<"customer">>
    /\ Entered(trace, levels, "e1") = {1, 2, 3}
====
